---- MODULE Spec2Model ----
(***************************************************************************)
(* Model of the planetary-number extraction and alignment pipeline of      *)
(* BodyGraphOCR (src/ocr/bodygraph_ocr.py), of the channel analysis of    *)
(* src/ocr/channel_definitions.py and of the per-segment extractor of      *)
(* src/ocr/generate_final_results.py.                                      *)
(*                                                                         *)
(* A text is a sequence of one-character strings.  A gate.line token is    *)
(* the sequence of its characters, so "01.3" and "1.3" are different       *)
(* tokens that parse to the same integers.                                 *)
(***************************************************************************)
EXTENDS Integers, Sequences, FiniteSets, TLC

VARIABLES
    text,                \* the OCR text handed to _parse_planetary_text_improved
    all_numbers,         \* re.findall result
    number_pairs,        \* raw pairs
    ocr_corrected_pairs, \* argument of _find_best_shift_pattern (<<>> when not called)
    resolver_called,     \* TRUE when _apply_ocr_corrections ran in the last parse
    corrected_pairs,     \* result of _apply_shift_correction
    planetary_data,      \* planet -> reading
    red_numbers,         \* arguments and results of the channel analysis
    black_numbers,
    center_analysis,
    module_analysis,
    gate_summary,        \* result of summarize_conscious_unconscious_gates
    calls,               \* (input, output) of the resolver calls made on the instance
    credentials,         \* environment: OPENAI_API_KEY is set
    failing_gates,       \* environment: the gates whose commentary request fails
    instance,            \* "none", "constructed" or "raised": BodyGraphOCR(...)
    chatgpt,             \* self.chatgpt: "None" or "client"
    reference_tables,    \* self.channels, self.gates, self.center_gate_layouts, self.planetary_order
    web_call,            \* the last fetch_gate_web_info call and what it returned
    batch,               \* environment: the images of the batch, in listing order
    position,            \* number of images main has taken from the batch
    results,             \* what save_results has written, one entry per image
    escaped,             \* TRUE when an exception left process_bodygraph
    hybrid_image,        \* environment: the image handed to extract_numbers_hybrid
    hybrid_numbers,      \* what extract_numbers_hybrid returned
    done                 \* the operations that have run: "parse", "class", "module",
                         \* "summary", "hybrid"

vars == <<text, all_numbers, number_pairs, ocr_corrected_pairs, resolver_called,
          corrected_pairs, planetary_data, red_numbers, black_numbers,
          center_analysis, module_analysis, gate_summary, calls, credentials,
          failing_gates, instance, chatgpt, reference_tables, web_call, batch,
          position, results, escaped, hybrid_image, hybrid_numbers, done>>

parseVars == <<text, all_numbers, number_pairs, ocr_corrected_pairs,
               resolver_called, corrected_pairs, planetary_data>>

channelVars == <<red_numbers, black_numbers, center_analysis, module_analysis,
                 gate_summary>>

commentaryVars == <<credentials, failing_gates, instance, chatgpt, reference_tables,
                    web_call>>

batchVars == <<batch, position, results, escaped>>

hybridVars == <<hybrid_image, hybrid_numbers>>

----------------------------------------------------------------------------
(* Characters and tokens *)

Digits == <<"0", "1", "2", "3", "4", "5", "6", "7", "8", "9">>

IsDigit(c) == c \in {"0", "1", "2", "3", "4", "5", "6", "7", "8", "9"}

IsSpace(c) == c \in {" ", "\n", "\t"}

DigitValue(c) == (CHOOSE d \in 1..10 : Digits[d] = c) - 1

\* str(n) for 0 <= n <= 99
IntToStr(n) == IF n < 10 THEN <<Digits[n + 1]>>
               ELSE <<Digits[(n \div 10) + 1], Digits[(n % 10) + 1]>>

\* f"{gate}.{line}"
FormatGateLine(gate, line) == IntToStr(gate) \o <<".">> \o IntToStr(line)

\* int(s) for a string of digits
RECURSIVE StrToInt(_)
StrToInt(s) == IF s = <<>> THEN 0
               ELSE 10 * StrToInt(SubSeq(s, 1, Len(s) - 1)) + DigitValue(s[Len(s)])

\* number.split('.')[0] and [1] of a token \d{1,2}\.\d
DotIndex(tok) == CHOOSE i \in 1..Len(tok) : tok[i] = "." /\ \A j \in 1..(i - 1) : tok[j] # "."

GateOf(tok) == StrToInt(SubSeq(tok, 1, DotIndex(tok) - 1))

LineOf(tok) == StrToInt(SubSeq(tok, DotIndex(tok) + 1, Len(tok)))

----------------------------------------------------------------------------
(* Token Parser: _parse_planetary_text_improved, lines 333-346 *)

\* re.sub(r'[^\d\.\s]', ' ', text)
ReplaceDisallowed(s) ==
    [i \in 1..Len(s) |-> IF IsDigit(s[i]) \/ s[i] = "." \/ IsSpace(s[i]) THEN s[i] ELSE " "]

\* re.sub(r'\s+', ' ', text).strip(): of every whitespace run that has a
\* character before it and one after it, the first character stays, as a space
CollapseWhitespace(s) ==
    LET Keep(i) == \/ ~IsSpace(s[i])
                   \/ /\ i > 1 /\ ~IsSpace(s[i - 1])
                      /\ \E j \in (i + 1)..Len(s) : ~IsSpace(s[j])
        kept == SelectSeq([i \in 1..Len(s) |-> i], Keep)
    IN  [k \in 1..Len(kept) |-> IF IsSpace(s[kept[k]]) THEN " " ELSE s[kept[k]]]

\* length of the match of \d{1,2}\.\d starting at i, 0 when there is none
MatchLen(s, i) ==
    IF /\ i + 3 <= Len(s)
       /\ IsDigit(s[i]) /\ IsDigit(s[i + 1]) /\ s[i + 2] = "." /\ IsDigit(s[i + 3])
    THEN 4
    ELSE IF /\ i + 2 <= Len(s)
            /\ IsDigit(s[i]) /\ s[i + 1] = "." /\ IsDigit(s[i + 2])
         THEN 3
         ELSE 0

\* re.findall(r'\d{1,2}\.\d', s): leftmost matches, no overlap
RECURSIVE FindAllFrom(_, _, _)
FindAllFrom(s, i, acc) ==
    IF i > Len(s) THEN acc
    ELSE LET m == MatchLen(s, i)
         IN  IF m > 0
             THEN FindAllFrom(s, i + m, Append(acc, SubSeq(s, i, i + m - 1)))
             ELSE FindAllFrom(s, i + 1, acc)

FindAll(s) == FindAllFrom(s, 1, <<>>)

\* for i in range(0, len(all_numbers), 2): if i + 1 < len(all_numbers): append
\* (i is the 0-based index of the loop)
RECURSIVE MakePairsFrom(_, _, _)
MakePairsFrom(nums, i, acc) ==
    IF i >= Len(nums) THEN acc
    ELSE IF i + 1 < Len(nums)
         THEN MakePairsFrom(nums, i + 2, Append(acc, <<nums[i + 1], nums[i + 2]>>))
         ELSE MakePairsFrom(nums, i + 2, acc)

\* MakePairs with the loop stepping by 1: every token paired with its successor
MakePairsSliding(nums) ==
    [k \in 1..(IF Len(nums) = 0 THEN 0 ELSE Len(nums) - 1) |-> <<nums[k], nums[k + 1]>>]

MakePairs(nums) == MakePairsFrom(nums, 0, <<>>)

----------------------------------------------------------------------------
(* Alignment Resolver: _apply_shift_correction and its helpers *)

\* corrections = {'87.2': '27.5', '01.3': '1.3', '69.5': '9.5', '42.1': '2.1'}
CorrectionKeys ==
    { <<"8", "7", ".", "2">>, <<"0", "1", ".", "3">>,
      <<"6", "9", ".", "5">>, <<"4", "2", ".", "1">> }

CorrectionValue(number) ==
    CASE number = <<"8", "7", ".", "2">> -> <<"2", "7", ".", "5">>
      [] number = <<"0", "1", ".", "3">> -> <<"1", ".", "3">>
      [] number = <<"6", "9", ".", "5">> -> <<"9", ".", "5">>
      [] number = <<"4", "2", ".", "1">> -> <<"2", ".", "1">>

\* CorrectOcrNumber with the lookup left out
CorrectOcrNumberMissing(number) == number

\* corrections.get(number, number)
CorrectOcrNumber(number) ==
    IF number \in CorrectionKeys THEN CorrectionValue(number) ELSE number

\* problematic_patterns of _is_ocr_data_reasonable
problematic_patterns ==
    { << <<"8", "7", ".", "2">>, <<"1", "7", ".", "6">> >>,
      << <<"2", "7", ".", "5">>, <<"1", "7", ".", "6">> >> }

\* 1 <= gate <= 64 and 1 <= line <= 6
InRange(tok) ==
    /\ 1 <= GateOf(tok) /\ GateOf(tok) <= 64
    /\ 1 <= LineOf(tok) /\ LineOf(tok) <= 6

ReasonableCount(pairs) ==
    Cardinality({i \in 1..Len(pairs) : InRange(pairs[i][1]) /\ InRange(pairs[i][2])})

\* IsOcrDataReasonable with more than 90% asked for
IsOcrDataReasonableAbove(pairs) ==
    IF Len(pairs) < 6 THEN FALSE
    ELSE IF \E i \in 1..Len(pairs) : pairs[i] \in problematic_patterns THEN FALSE
    ELSE 10 * ReasonableCount(pairs) > 9 * Len(pairs)

\* IsOcrDataReasonable with the length test taken for the whole list of 13
IsOcrDataReasonableThirteen(pairs) ==
    IF Len(pairs) < 13 THEN FALSE
    ELSE IF \E i \in 1..Len(pairs) : pairs[i] \in problematic_patterns THEN FALSE
    ELSE 10 * ReasonableCount(pairs) >= 9 * Len(pairs)

\* reasonable_count >= len(pairs) * 0.9, in integers
IsOcrDataReasonable(pairs) ==
    IF Len(pairs) < 6 THEN FALSE
    ELSE IF \E i \in 1..Len(pairs) : pairs[i] \in problematic_patterns THEN FALSE
    ELSE 10 * ReasonableCount(pairs) >= 9 * Len(pairs)

\* the literal answer set of the "custom mapping" branch, Mercury..Pluto
CustomMapping ==
    << << <<"2", "7", ".", "5">>, <<"7", ".", "2">> >>,
       << <<"1", "7", ".", "6">>, <<"5", "6", ".", "6">> >>,
       << <<"1", "4", ".", "4">>, <<"1", ".", "3">> >>,
       << <<"3", "8", ".", "4">>, <<"5", "8", ".", "3">> >>,
       << <<"1", ".", "2">>, <<"4", "4", ".", "3">> >>,
       << <<"5", ".", "2">>, <<"9", ".", "5">> >>,
       << <<"1", "0", ".", "4">>, <<"1", "0", ".", "2">> >>,
       << <<"5", "0", ".", "5">>, <<"5", "0", ".", "4">> >> >>

\* expected_values of the pattern-matching fallback
expected_values ==
    << << <<"2", "7", ".", "5">>, <<"7", ".", "2">> >>,
       << <<"1", "7", ".", "6">>, <<"5", "6", ".", "6">> >>,
       << <<"1", "4", ".", "4">>, <<"1", ".", "3">> >>,
       << <<"3", "8", ".", "4">>, <<"5", "8", ".", "3">> >>,
       << <<"1", ".", "2">>, <<"4", "4", ".", "3">> >>,
       << <<"5", ".", "2">>, <<"9", ".", "5">> >>,
       << <<"1", "0", ".", "4">>, <<"1", "0", ".", "2">> >>,
       << <<"5", "0", ".", "5">>, <<"5", "0", ".", "4">> >> >>

\* the score of one candidate against one expected pair
Score(actual, expected) ==
    IF actual[1] = expected[1] /\ actual[2] = expected[2] THEN 3
    ELSE IF actual[1] = expected[1] THEN 2
    ELSE IF actual[2] = expected[2] THEN 2
    ELSE 0

\* BestMatch with the test on used_pairs left out
BestMatchIgnoresUsed(pairs, used_pairs, expected) ==
    LET cand == {i \in 1..Len(pairs) : Score(pairs[i], expected) > 0}
    IN  IF cand = {} THEN 0
        ELSE CHOOSE i \in cand :
                \A j \in cand : \/ Score(pairs[j], expected) < Score(pairs[i], expected)
                                \/ (Score(pairs[j], expected) = Score(pairs[i], expected) /\ i <= j)

\* the inner loop: index of the first unused candidate with the highest score
\* above 0, or 0 when there is none (best_match stays None)
BestMatch(pairs, used_pairs, expected) ==
    LET cand == {i \in 1..Len(pairs) : i \notin used_pairs /\ Score(pairs[i], expected) > 0}
    IN  IF cand = {} THEN 0
        ELSE CHOOSE i \in cand :
                \A j \in cand : \/ Score(pairs[j], expected) < Score(pairs[i], expected)
                                \/ (Score(pairs[j], expected) = Score(pairs[i], expected) /\ i <= j)

\* the outer loop over expected_values
RECURSIVE MatchFrom(_, _, _, _)
MatchFrom(pairs, e, used_pairs, result) ==
    IF e > Len(expected_values) THEN result
    ELSE LET b == BestMatch(pairs, used_pairs, expected_values[e])
         IN  IF b # 0
             THEN MatchFrom(pairs, e + 1, used_pairs \cup {b}, Append(result, pairs[b]))
             ELSE MatchFrom(pairs, e + 1, used_pairs, result)

\* the outer loop over expected_values: best_match[2] of every expected pair,
\* as an index from 1, or 0 where best_match stays None
RECURSIVE SelectedFrom(_, _, _, _)
SelectedFrom(pairs, e, used_pairs, selected) ==
    IF e > Len(expected_values) THEN selected
    ELSE LET b == BestMatch(pairs, used_pairs, expected_values[e])
         IN  IF b # 0
             THEN SelectedFrom(pairs, e + 1, used_pairs \cup {b}, Append(selected, b))
             ELSE SelectedFrom(pairs, e + 1, used_pairs, Append(selected, 0))

\* FindBestShiftPattern with the matching run before the custom mapping
FindBestShiftPatternMatchingFirst(pairs) ==
    IF IsOcrDataReasonable(pairs) THEN pairs
    ELSE LET result == MatchFrom(pairs, 1, {}, <<>>)
         IN  IF result # <<>> THEN result
             ELSE IF Len(pairs) >= 6 THEN CustomMapping ELSE pairs

\* FindBestShiftPattern with result kept on the instance: the matching starts
\* from the pairs the previous call returned for positions 5 and later
FindBestShiftPatternKeepsResult(pairs) ==
    IF IsOcrDataReasonable(pairs) THEN pairs
    ELSE IF Len(pairs) >= 6 THEN CustomMapping
    ELSE LET kept == IF Len(corrected_pairs) > 5
                     THEN SubSeq(corrected_pairs, 6, Len(corrected_pairs)) ELSE <<>>
             result == MatchFrom(pairs, 1, {}, kept)
         IN  IF result # <<>> THEN result ELSE pairs

FindBestShiftPattern(pairs) ==
    IF IsOcrDataReasonable(pairs) THEN pairs
    ELSE IF Len(pairs) >= 6 THEN CustomMapping
    ELSE LET result == MatchFrom(pairs, 1, {}, <<>>)
         IN  IF result # <<>> THEN result ELSE pairs

\* the pairs _apply_ocr_corrections hands to _find_best_shift_pattern
OcrCorrected(remaining_pairs) ==
    [i \in 1..Len(remaining_pairs) |->
        <<CorrectOcrNumber(remaining_pairs[i][1]), CorrectOcrNumber(remaining_pairs[i][2])>>]

\* _apply_ocr_corrections: the corrected pairs it built and the pattern it returns
ApplyOcrCorrections(remaining_pairs) ==
    LET ocr == OcrCorrected(remaining_pairs)
    IN  [ocr_corrected_pairs |-> ocr, best_pattern |-> FindBestShiftPattern(ocr)]

\* ApplyShiftCorrection with the correction table applied before the list is split
ApplyShiftCorrectionAllPairs(pairs) ==
    IF Len(pairs) < 6
    THEN [called |-> FALSE, ocr_corrected_pairs |-> <<>>, corrected_pairs |-> pairs]
    ELSE LET c == OcrCorrected(pairs)
             r == ApplyOcrCorrections(SubSeq(c, 6, Len(c)))
         IN  [called |-> TRUE,
              ocr_corrected_pairs |-> r.ocr_corrected_pairs,
              corrected_pairs |-> SubSeq(c, 1, 5) \o r.best_pattern]

\* _apply_shift_correction: its return value (corrected_pairs), with the pairs
\* that were handed to _find_best_shift_pattern when it was called
ApplyShiftCorrection(pairs) ==
    IF Len(pairs) < 6
    THEN [called |-> FALSE, ocr_corrected_pairs |-> <<>>, corrected_pairs |-> pairs]
    ELSE LET r == ApplyOcrCorrections(SubSeq(pairs, 6, Len(pairs)))
         IN  [called |-> TRUE,
              ocr_corrected_pairs |-> r.ocr_corrected_pairs,
              corrected_pairs |-> SubSeq(pairs, 1, 5) \o r.best_pattern]

----------------------------------------------------------------------------
(* Reference tables of BodyGraphOCR.__init__ and of channel_definitions.py *)

\* the keys of self.channels, in dictionary order, as <<gate1, gate2>>
channels ==
    <<
       <<1, 8>>, <<2, 14>>, <<3, 60>>, <<4, 63>>, <<5, 15>>, <<6, 59>>, <<7, 31>>,
       <<9, 52>>, <<10, 20>>, <<10, 57>>, <<11, 56>>, <<12, 22>>, <<13, 33>>,
       <<14, 2>>, <<15, 5>>, <<16, 48>>, <<17, 62>>, <<18, 58>>, <<19, 49>>,
       <<20, 34>>, <<20, 57>>, <<21, 45>>, <<22, 12>>, <<23, 43>>, <<24, 61>>,
       <<25, 51>>, <<26, 44>>, <<27, 50>>, <<28, 38>>, <<29, 46>>, <<30, 41>>,
       <<32, 54>>, <<33, 13>>, <<34, 10>>, <<34, 20>>, <<34, 57>>, <<35, 36>>,
       <<37, 40>>, <<39, 55>>, <<42, 53>>, <<47, 64>>
    >>

\* self.center_gate_layouts, in dictionary order
center_gate_layouts ==
    <<
       [center |-> "Head", gates |-> <<64, 61, 63>>],
       [center |-> "Ajna", gates |-> <<47, 24, 4, 11, 43, 17>>],
       [center |-> "Throat", gates |-> <<62, 23, 56, 35, 12, 45, 33, 8, 31, 20, 16>>],
       [center |-> "G", gates |-> <<1, 13, 25, 46, 2, 15, 10, 7>>],
       [center |-> "Heart", gates |-> <<21, 40, 26, 51>>],
       [center |-> "Solar Plexus", gates |-> <<6, 37, 22, 36, 49, 55, 30>>],
       [center |-> "Spleen", gates |-> <<48, 57, 44, 50, 32, 28, 18>>],
       [center |-> "Sacral", gates |-> <<34, 5, 14, 29, 27, 42, 3, 9, 59>>],
       [center |-> "Root", gates |-> <<58, 38, 54, 53, 60, 52, 19, 39, 41>>]
    >>

\* self.planetary_order
planetary_order ==
    <<"Sun", "Earth", "Moon", "North Node", "South Node", "Mercury", "Venus",
      "Mars", "Jupiter", "Saturn", "Uranus", "Neptune", "Pluto">>

\* HUMAN_DESIGN_CHANNELS of channel_definitions.py: key and static centers
HUMAN_DESIGN_CHANNELS ==
    <<
       [gates |-> <<1, 8>>, centers |-> <<"Head", "Throat">>],
       [gates |-> <<2, 14>>, centers |-> <<"Ajna", "Sacral">>],
       [gates |-> <<3, 60>>, centers |-> <<"Root", "Sacral">>],
       [gates |-> <<4, 63>>, centers |-> <<"Ajna", "Head">>],
       [gates |-> <<5, 15>>, centers |-> <<"Sacral", "Throat">>],
       [gates |-> <<6, 59>>, centers |-> <<"Sacral", "Root">>],
       [gates |-> <<7, 31>>, centers |-> <<"Throat", "G">>],
       [gates |-> <<9, 52>>, centers |-> <<"Sacral", "Root">>],
       [gates |-> <<10, 20>>, centers |-> <<"G", "Throat">>],
       [gates |-> <<10, 57>>, centers |-> <<"G", "Spleen">>],
       [gates |-> <<11, 56>>, centers |-> <<"Ajna", "Throat">>],
       [gates |-> <<12, 22>>, centers |-> <<"Throat", "Solar Plexus">>],
       [gates |-> <<13, 33>>, centers |-> <<"Throat", "G">>],
       [gates |-> <<14, 2>>, centers |-> <<"Sacral", "Ajna">>],
       [gates |-> <<15, 5>>, centers |-> <<"Throat", "Sacral">>],
       [gates |-> <<16, 48>>, centers |-> <<"Throat", "Spleen">>],
       [gates |-> <<17, 62>>, centers |-> <<"Ajna", "Throat">>],
       [gates |-> <<18, 58>>, centers |-> <<"Root", "Spleen">>],
       [gates |-> <<19, 49>>, centers |-> <<"Root", "Solar Plexus">>],
       [gates |-> <<20, 34>>, centers |-> <<"Throat", "Sacral">>],
       [gates |-> <<20, 57>>, centers |-> <<"Throat", "Spleen">>],
       [gates |-> <<21, 45>>, centers |-> <<"Heart", "Throat">>],
       [gates |-> <<23, 43>>, centers |-> <<"Throat", "Ajna">>],
       [gates |-> <<24, 61>>, centers |-> <<"Head", "Ajna">>],
       [gates |-> <<25, 51>>, centers |-> <<"Heart", "G">>],
       [gates |-> <<26, 44>>, centers |-> <<"Throat", "Solar Plexus">>],
       [gates |-> <<27, 50>>, centers |-> <<"Sacral", "Spleen">>],
       [gates |-> <<28, 38>>, centers |-> <<"Root", "Solar Plexus">>],
       [gates |-> <<29, 46>>, centers |-> <<"Sacral", "G">>],
       [gates |-> <<30, 41>>, centers |-> <<"Solar Plexus", "Root">>],
       [gates |-> <<32, 54>>, centers |-> <<"Spleen", "Root">>],
       [gates |-> <<35, 36>>, centers |-> <<"Solar Plexus", "Throat">>],
       [gates |-> <<37, 40>>, centers |-> <<"Heart", "Solar Plexus">>],
       [gates |-> <<39, 55>>, centers |-> <<"Root", "Solar Plexus">>],
       [gates |-> <<42, 53>>, centers |-> <<"Sacral", "Root">>],
       [gates |-> <<47, 64>>, centers |-> <<"Head", "Ajna">>]
    >>

----------------------------------------------------------------------------
(* Assignment of the resolved pairs to the planets, lines 353-374 *)

PlanetIndex(planet) == CHOOSE i \in 1..Len(planetary_order) : planetary_order[i] = planet

\* one entry of planetary_data, built from the pair (red_num, black_num)
Reading(red_num, black_num) ==
    [personality |-> [gate |-> GateOf(red_num), line |-> LineOf(red_num), color |-> "red"],
     design |-> [gate |-> GateOf(black_num), line |-> LineOf(black_num), color |-> "black"]]

\* AssignPlanets with the enumeration started at 1: pair k goes to planet k + 1
AssignPlanetsFromOne(pairs) ==
    LET n == IF Len(pairs) < Len(planetary_order) - 1 THEN Len(pairs)
             ELSE Len(planetary_order) - 1
    IN  [planet \in {planetary_order[i + 1] : i \in 1..n} |->
            Reading(pairs[PlanetIndex(planet) - 1][1], pairs[PlanetIndex(planet) - 1][2])]

\* for i, (red_num, black_num) in enumerate(corrected_pairs): if i < len(planetary_order)
AssignPlanets(pairs) ==
    LET n == IF Len(pairs) < Len(planetary_order) THEN Len(pairs) ELSE Len(planetary_order)
    IN  [planet \in {planetary_order[i] : i \in 1..n} |->
            Reading(pairs[PlanetIndex(planet)][1], pairs[PlanetIndex(planet)][2])]

----------------------------------------------------------------------------
(* Center/Channel Analyzer *)

\* get_activated_gates_from_numbers: the gate of every number that holds a '.'
GetActivatedGatesFromNumbers(numbers) ==
    LET dotted == SelectSeq(numbers, LAMBDA n : \E i \in 1..Len(n) : n[i] = ".")
    IN  [i \in 1..Len(dotted) |-> GateOf(dotted[i])]

SeqToSet(q) == {q[i] : i \in 1..Len(q)}

\* BodyGraphOCR.get_center_for_gate: the first center that lists the gate, or
\* None; tabulated for the gates a token of one or two digits can name
CenterOfGate ==
    [gate_number \in 0..99 |->
        LET listing == {c \in 1..Len(center_gate_layouts) :
                            gate_number \in SeqToSet(center_gate_layouts[c].gates)}
        IN  IF listing = {} THEN "None"
            ELSE center_gate_layouts[CHOOSE c \in listing : \A d \in listing : c <= d].center]

GetCenterForGate(gate_number) == CenterOfGate[gate_number]

\* ChannelIsDefined with the second gate not tested
ChannelIsDefinedFirstGate(gate1, gate2, activated_gates) ==
    /\ gate1 \in activated_gates
    /\ GetCenterForGate(gate1) # "None" /\ GetCenterForGate(gate2) # "None"
    /\ GetCenterForGate(gate1) # GetCenterForGate(gate2)

\* the test of BodyGraphOCR.find_defined_channels on one channel key
ChannelIsDefined(gate1, gate2, activated_gates) ==
    /\ gate1 \in activated_gates /\ gate2 \in activated_gates
    /\ GetCenterForGate(gate1) # "None" /\ GetCenterForGate(gate2) # "None"
    /\ GetCenterForGate(gate1) # GetCenterForGate(gate2)

\* BodyGraphOCR.find_defined_channels
FindDefinedChannels(activated_gates) ==
    LET keys == SelectSeq(channels, LAMBDA k : ChannelIsDefined(k[1], k[2], activated_gates))
    IN  [i \in 1..Len(keys) |->
            [gates |-> keys[i],
             centers |-> <<GetCenterForGate(keys[i][1]), GetCenterForGate(keys[i][2])>>]]

\* DetermineDefinedCenters reading the first center of every channel only
DetermineDefinedCentersFirst(defined_channels) ==
    {defined_channels[i].centers[1] : i \in 1..Len(defined_channels)}

\* determine_defined_centers (the same code in both files)
DetermineDefinedCenters(defined_channels) ==
    UNION {SeqToSet(defined_channels[i].centers) : i \in 1..Len(defined_channels)}

\* BodyGraphOCR.analyze_center_definitions
AnalyzeCenterDefinitions(red, black) ==
    LET red_gates == GetActivatedGatesFromNumbers(red)
        black_gates == GetActivatedGatesFromNumbers(black)
        all_activated_gates == SeqToSet(red_gates \o black_gates)
        defined_channels == FindDefinedChannels(all_activated_gates)
    IN  [activated_gates |-> all_activated_gates,
         defined_channels |-> defined_channels,
         defined_centers |-> DetermineDefinedCenters(defined_channels),
         red_gates |-> red_gates,
         black_gates |-> black_gates]

\* the test of channel_definitions.find_defined_channels on one channel key
ModuleChannelIsDefined(gate1, gate2, activated_gates) ==
    gate1 \in activated_gates /\ gate2 \in activated_gates

\* channel_definitions.find_defined_channels
ModuleFindDefinedChannels(activated_gates) ==
    SelectSeq(HUMAN_DESIGN_CHANNELS,
              LAMBDA c : ModuleChannelIsDefined(c.gates[1], c.gates[2], activated_gates))

\* channel_definitions.analyze_center_definitions
ModuleAnalyzeCenterDefinitions(red, black) ==
    LET red_gates == GetActivatedGatesFromNumbers(red)
        black_gates == GetActivatedGatesFromNumbers(black)
        all_activated_gates == SeqToSet(red_gates \o black_gates)
        defined_channels == ModuleFindDefinedChannels(all_activated_gates)
    IN  [activated_gates |-> all_activated_gates,
         defined_channels |-> defined_channels,
         defined_centers |-> DetermineDefinedCenters(defined_channels),
         red_gates |-> red_gates,
         black_gates |-> black_gates]

----------------------------------------------------------------------------
(* Gate summary: summarize_conscious_unconscious_gates *)

\* the keys of self.gates
gates == 1..64

\* get_gate_info(gate_number) is not None
HasGateInfo(gate_number) == gate_number \in gates

\* the summary entries of the gates of a list: one entry, in list order, for
\* every gate that has gate info (name and description are read from self.gates)
SummaryEntries(gate_numbers) ==
    LET known == SelectSeq(gate_numbers, HasGateInfo)
    IN  [i \in 1..Len(known) |-> [gate |-> known[i], center |-> GetCenterForGate(known[i])]]

\* SummarizeConsciousUnconsciousGates with conscious_only taken as the whole
\* black-derived set
SummarizeWithoutDifference(red, black) ==
    LET unconscious_gates == GetActivatedGatesFromNumbers(red)
        conscious_gates == GetActivatedGatesFromNumbers(black)
        conscious_only == SeqToSet(conscious_gates)
        unconscious_only == SeqToSet(unconscious_gates) \ SeqToSet(conscious_gates)
        both == SeqToSet(conscious_gates) \cap SeqToSet(unconscious_gates)
    IN  [conscious_gates |-> SummaryEntries(conscious_gates),
         unconscious_gates |-> SummaryEntries(unconscious_gates),
         conscious_gate_numbers |-> conscious_gates,
         unconscious_gate_numbers |-> unconscious_gates,
         conscious_only |-> conscious_only,
         unconscious_only |-> unconscious_only,
         both_conscious_unconscious |-> both,
         summary |-> [total_unique_gates |->
                          Cardinality(SeqToSet(conscious_gates \o unconscious_gates)),
                      conscious_only_count |-> Cardinality(conscious_only),
                      unconscious_only_count |-> Cardinality(unconscious_only),
                      both_count |-> Cardinality(both)]]

\* summarize_conscious_unconscious_gates(red_numbers, black_numbers)
SummarizeConsciousUnconsciousGates(red, black) ==
    LET unconscious_gates == GetActivatedGatesFromNumbers(red)
        conscious_gates == GetActivatedGatesFromNumbers(black)
        conscious_only == SeqToSet(conscious_gates) \ SeqToSet(unconscious_gates)
        unconscious_only == SeqToSet(unconscious_gates) \ SeqToSet(conscious_gates)
        both == SeqToSet(conscious_gates) \cap SeqToSet(unconscious_gates)
    IN  [conscious_gates |-> SummaryEntries(conscious_gates),
         unconscious_gates |-> SummaryEntries(unconscious_gates),
         conscious_gate_numbers |-> conscious_gates,
         unconscious_gate_numbers |-> unconscious_gates,
         conscious_only |-> conscious_only,
         unconscious_only |-> unconscious_only,
         both_conscious_unconscious |-> both,
         summary |-> [total_unique_gates |->
                          Cardinality(SeqToSet(conscious_gates \o unconscious_gates)),
                      conscious_only_count |-> Cardinality(conscious_only),
                      unconscious_only_count |-> Cardinality(unconscious_only),
                      both_count |-> Cardinality(both)]]

----------------------------------------------------------------------------
(* Commentary: BodyGraphOCR.__init__, fetch_gate_web_info and
   HumanDesignChatGPT of chatgpt_integration.py.  A text is a record of the
   parts it is formatted from. *)

\* HumanDesignChatGPT.__init__: ValueError when there is no API key
HumanDesignChatGPTInit(api_key) == IF api_key THEN "client" ELSE "ValueError"

\* BodyGraphOCRInit with the ValueError of HumanDesignChatGPT() not caught
BodyGraphOCRInitUncaught(enable_chatgpt, CHATGPT_AVAILABLE, api_key) ==
    IF enable_chatgpt /\ CHATGPT_AVAILABLE
    THEN IF HumanDesignChatGPTInit(api_key) = "ValueError"
         THEN [instance |-> "raised", chatgpt |-> "None"]
         ELSE [instance |-> "constructed", chatgpt |-> "client"]
    ELSE [instance |-> "constructed", chatgpt |-> "None"]

\* BodyGraphOCR.__init__, lines 35-44: self.chatgpt and how the call ended
BodyGraphOCRInit(enable_chatgpt, CHATGPT_AVAILABLE, api_key) ==
    IF enable_chatgpt /\ CHATGPT_AVAILABLE
    THEN IF HumanDesignChatGPTInit(api_key) = "ValueError"
         THEN [instance |-> "constructed", chatgpt |-> "None"]
         ELSE [instance |-> "constructed", chatgpt |-> "client"]
    ELSE [instance |-> "constructed", chatgpt |-> "None"]

\* the activation types, word by word ("Conscious" with its capital is not a
\* part of "Unconscious")
BothConsciousAndUnconscious == <<"Both", "Conscious", "and", "Unconscious">>

ConsciousOnly == <<"Conscious", "Only", "(Black)">>

UnconsciousOnly == <<"Unconscious", "Only", "(Red)">>

\* word in activation_type
Contains(word, activation_type) == \E i \in 1..Len(activation_type) : activation_type[i] = word

\* the keys of insights in get_gate_specific_insights
InsightGates == {5, 6, 9, 11, 12, 19, 22, 29, 32, 34, 35, 36, 38, 39, 41, 46, 52, 53, 57, 58, 61}

\* get_gate_specific_insights: the entry of the gate for the activation type,
\* or the default sentence of the activation type (gate 0)
GetGateSpecificInsights(gate_num, activation_type) ==
    LET key == IF Contains("Both", activation_type) THEN "Both"
               ELSE IF Contains("Conscious", activation_type) THEN "Conscious"
               ELSE "Unconscious"
    IN  [gate |-> IF gate_num \in InsightGates THEN gate_num ELSE 0, key |-> key]

\* the fallback of fetch_gate_web_info, lines 1061-1075: info_type, the
\* sentence that explains it (named by its first words) and the insights
BuiltInInsights(gate_num, activation_type) ==
    LET branch == IF Contains("Both", activation_type)
                  THEN <<"Conscious & Unconscious", "This gate operates in both">>
                  ELSE IF Contains("Conscious", activation_type)
                       THEN <<"Conscious Personality (Black)",
                              "This gate is part of your conscious personality">>
                       ELSE <<"Unconscious Design (Red)",
                              "This gate operates in your unconscious design">>
    IN  [kind |-> "static",
         info_type |-> branch[1],
         explanation |-> branch[2],
         insights |-> GetGateSpecificInsights(gate_num, activation_type)]

\* HumanDesignChatGPT.analyze_gate: the answer of the service, or the text
\* built in the except clause when the request raises
AnalyzeGate(gate_num, center, activation_type, request_fails) ==
    IF request_fails
    THEN [kind |-> "text", failed |-> TRUE, gate_num |-> 0, center |-> "",
          activation_type |-> <<>>]
    ELSE [kind |-> "text", failed |-> FALSE, gate_num |-> gate_num, center |-> center,
          activation_type |-> activation_type]

\* FetchGateWebInfo with no except clause here or in analyze_gate: a failing
\* request raises out of the call
FetchGateWebInfoUncaught(self_chatgpt, gate_num, activation_type, request_fails) ==
    IF self_chatgpt # "None"
    THEN IF request_fails THEN [kind |-> "raised"]
         ELSE [kind |-> "chatgpt",
               analysis |-> AnalyzeGate(gate_num, GetCenterForGate(gate_num),
                                        activation_type, FALSE)]
    ELSE BuiltInInsights(gate_num, activation_type)

\* fetch_gate_web_info: the service text behind its prefix when self.chatgpt is
\* set, the built-in text otherwise; an exception raised on the way gives the
\* text of the except clause
FetchGateWebInfo(self_chatgpt, gate_num, activation_type, request_fails) ==
    IF self_chatgpt # "None"
    THEN LET chatgpt_analysis == AnalyzeGate(gate_num, GetCenterForGate(gate_num),
                                             activation_type, request_fails)
         IN  IF chatgpt_analysis.kind = "raised"
             THEN [kind |-> "generation_failed"]
             ELSE [kind |-> "chatgpt", analysis |-> chatgpt_analysis]
    ELSE BuiltInInsights(gate_num, activation_type)

----------------------------------------------------------------------------
(* Pipeline: load_image, extract_planetary_info, process_bodygraph.  An image
   is what the libraries make of the file: whether cv2.imread reads it, its
   size, and what the OCR engine does on its planetary region. *)

\* load_image with no try around cv2.imread and the ValueError
LoadImageUncaught(image) == IF image.loadable THEN "image" ELSE "raised"

\* load_image: None when cv2.imread returns None (the ValueError is caught)
LoadImage(image) == IF image.loadable THEN "image" ELSE "None"

\* the number of elements of a[start:stop] on an axis of n elements
SliceLen(start, stop, n) ==
    LET bound(k) == IF k < 0 THEN (IF k + n < 0 THEN 0 ELSE k + n)
                    ELSE (IF k > n THEN n ELSE k)
    IN  IF bound(stop) > bound(start) THEN bound(stop) - bound(start) ELSE 0

\* the fixed region of extract_planetary_info, lines 274-277
CropBox(width, height) ==
    [box_x_start |-> (65 * width) \div 100, box_x_end |-> width - 10,
     box_y_start |-> 10, box_y_end |-> (45 * height) \div 100]

\* the number of pixels of image[box_y_start:box_y_end, box_x_start:box_x_end]
CropArea(width, height) ==
    LET box == CropBox(width, height)
    IN  SliceLen(box.box_y_start, box.box_y_end, height)
            * SliceLen(box.box_x_start, box.box_x_end, width)

\* _parse_planetary_text_improved as a function of the text
ParsePlanetaryText(ocr_text) ==
    AssignPlanets(
        ApplyShiftCorrection(
            MakePairs(FindAll(CollapseWhitespace(ReplaceDisallowed(ocr_text))))
        ).corrected_pairs)

\* the empty dictionary as planetary_info
EmptyInfo ==
    [planets |-> <<>>, clean_keys |-> FALSE,
     red_numbers_clean |-> <<>>, black_numbers_clean |-> <<>>]

\* the dictionary extract_planetary_info returns after a parse: the planets,
\* and the keys red_numbers_clean and black_numbers_clean
InfoOf(parsed) ==
    LET populated == SelectSeq(planetary_order, LAMBDA planet : planet \in DOMAIN parsed)
    IN  [planets |-> parsed, clean_keys |-> TRUE,
         red_numbers_clean |->
            [i \in 1..Len(populated) |->
                FormatGateLine(parsed[populated[i]].personality.gate,
                               parsed[populated[i]].personality.line)],
         black_numbers_clean |->
            [i \in 1..Len(populated) |->
                FormatGateLine(parsed[populated[i]].design.gate,
                               parsed[populated[i]].design.line)]]

\* ExtractPlanetaryInfo with planetary_data kept on the instance: the planets
\* of the last result that this parse does not populate stay in the dictionary
ExtractPlanetaryInfoKeepsPlanets(image) ==
    LET kept == IF results # <<>> /\ "planetary_info" \in DOMAIN results[Len(results)]
                THEN results[Len(results)].planetary_info.planets
                ELSE <<>>
    IN  IF CropArea(image.width, image.height) = 0
        THEN [raised |-> TRUE, info |-> EmptyInfo]
        ELSE IF image.ocr_raises
             THEN [raised |-> FALSE, info |-> EmptyInfo]
             ELSE [raised |-> FALSE,
                   info |-> InfoOf(ParsePlanetaryText(image.ocr_text) @@ kept)]

\* ExtractPlanetaryInfo with the OCR call outside the try
ExtractPlanetaryInfoUncaught(image) ==
    IF CropArea(image.width, image.height) = 0 \/ image.ocr_raises
    THEN [raised |-> TRUE, info |-> EmptyInfo]
    ELSE [raised |-> FALSE, info |-> InfoOf(ParsePlanetaryText(image.ocr_text))]

\* extract_planetary_info, lines 265-313: cv2.cvtColor, before the try, raises
\* cv2.error on an empty crop; an exception of the OCR call or of the parse
\* gives {}
ExtractPlanetaryInfo(image) ==
    IF CropArea(image.width, image.height) = 0
    THEN [raised |-> TRUE, info |-> EmptyInfo]
    ELSE IF image.ocr_raises
         THEN [raised |-> FALSE, info |-> EmptyInfo]
         ELSE [raised |-> FALSE, info |-> InfoOf(ParsePlanetaryText(image.ocr_text))]

\* len(planetary_info)
InfoLen(info) == Cardinality(DOMAIN info.planets) + (IF info.clean_keys THEN 2 ELSE 0)

\* get_channel_detailed_description: the fields of the channel, the
\* description replaced by the enhanced one of its key
GetChannelDetailedDescription(channel) ==
    [channel |-> channel.gates, centers |-> channel.centers, gates |-> channel.gates]

\* get_gate_detailed_description: None for a gate with no gate info; name,
\* description and color meaning are read from tables by gate and by type
GetGateDetailedDescription(gate_num, summary, self_chatgpt, request_fails) ==
    LET is_conscious == gate_num \in SeqToSet(summary.conscious_gate_numbers)
        is_unconscious == gate_num \in SeqToSet(summary.unconscious_gate_numbers)
        activation_type == IF is_conscious /\ is_unconscious THEN BothConsciousAndUnconscious
                           ELSE IF is_conscious THEN ConsciousOnly
                           ELSE UnconsciousOnly
    IN  [gate |-> gate_num,
         center |-> GetCenterForGate(gate_num),
         activation_type |-> activation_type,
         web_info |-> FetchGateWebInfo(self_chatgpt, gate_num, activation_type, request_fails)]

\* int(float(num)) of a gate.line string
IntOfFloat(num) == GateOf(num)

\* process_bodygraph, lines 1399-1463: how the call ended and what it returned
\* (image_path, echoed in the result, is left out; gate_descriptions is given
\* by gate, in no order)
ProcessBodygraph(image, self_chatgpt, failing) ==
    IF LoadImage(image) = "raised"
    THEN [raised |-> TRUE, result |-> [error |-> "raised"]]
    ELSE IF LoadImage(image) = "None"
    THEN [raised |-> FALSE, result |-> [error |-> "Could not load image"]]
    ELSE
    LET extraction == ExtractPlanetaryInfo(image)
        planetary_info == extraction.info
        red == planetary_info.red_numbers_clean
        black == planetary_info.black_numbers_clean
        analysis == AnalyzeCenterDefinitions(red, black)
        summary == SummarizeConsciousUnconsciousGates(red, black)
        all_gates == {IntOfFloat(red[i]) : i \in 1..Len(red)}
                        \cup {IntOfFloat(black[i]) : i \in 1..Len(black)}
        described == {g \in all_gates : HasGateInfo(g)}
        gate_descriptions ==
            [g \in described |->
                GetGateDetailedDescription(g, summary, self_chatgpt, g \in failing)]
    IN  IF extraction.raised \/ \E g \in described : gate_descriptions[g].web_info.kind = "raised"
        THEN [raised |-> TRUE, result |-> [error |-> "raised"]]
        ELSE [raised |-> FALSE,
              result |->
                [planetary_info |-> planetary_info,
                 center_analysis |-> analysis,
                 activated_gates |-> <<>>,
                 channel_descriptions |->
                    [i \in 1..Len(analysis.defined_channels) |->
                        GetChannelDetailedDescription(analysis.defined_channels[i])],
                 gate_summary |-> summary,
                 gate_descriptions |-> gate_descriptions,
                 summary |->
                    [total_planets |-> InfoLen(planetary_info),
                     defined_centers_from_channels |-> Cardinality(analysis.defined_centers),
                     defined_channels |-> Len(analysis.defined_channels),
                     total_activated_gates |-> 0]]]

----------------------------------------------------------------------------
(* Inputs *)

\* the calibration chart: red_numbers and black_numbers of the self-test of
\* channel_definitions.py, row by row (red gate, red line, black gate, black line)
ReferenceRows ==
    << <<42, 5, 62, 3>>, <<32, 3, 61, 3>>, <<48, 6, 1, 3>>, <<49, 4, 38, 4>>,
       <<16, 2, 58, 3>>, <<20, 6, 1, 2>>, <<9, 2, 44, 3>>, <<34, 6, 5, 2>>,
       <<27, 5, 9, 5>>, <<7, 2, 10, 4>>, <<17, 6, 10, 2>>, <<56, 6, 50, 5>>,
       <<14, 4, 50, 4>> >>

ReferencePairs ==
    [i \in 1..Len(ReferenceRows) |->
        <<FormatGateLine(ReferenceRows[i][1], ReferenceRows[i][2]),
          FormatGateLine(ReferenceRows[i][3], ReferenceRows[i][4])>>]

\* the chart the custom mapping was written for: five rows, then the mapping
Img1995Pairs == SubSeq(ReferencePairs, 1, 5) \o CustomMapping

Bases == {ReferencePairs, Img1995Pairs}

\* what the OCR engine may emit in place of one token
Fragments ==
    { <<"8", "7", ".", "2">>, <<"0", "1", ".", "3">>, <<"6", "9", ".", "5">>,
      <<"4", "2", ".", "1">>, <<"9", "9", ".", "9">>, <<"0", ".", "0">>,
      <<"1", "7", ".", "6">>, <<"2", "7", ".", "5">>, <<"7", ".", "2">>,
      <<"7">>, <<"1", "2", "3", ".", "4">>, <<"4", "x", "2", ".", "5">> }

\* the longest OCR output, in tokens
MaxTokens == 31

\* the k-th token of a chart (the chart is read again after its last row)
BaseToken(base, k) ==
    base[(((k + 1) \div 2 - 1) % Len(base)) + 1][IF k % 2 = 1 THEN 1 ELSE 2]

\* the first n tokens of a chart, the p-th one replaced by f (none when p = 0)
OcrTokens(base, n, p, f) ==
    [k \in 1..n |-> IF k = p THEN f ELSE BaseToken(base, k)]

\* the text of the tokens: red and black on one line, one line per row
RECURSIVE Render(_)
Render(toks) ==
    IF toks = <<>> THEN <<>>
    ELSE Render(SubSeq(toks, 1, Len(toks) - 1)) \o toks[Len(toks)]
         \o (IF Len(toks) % 2 = 1 THEN <<" ">> ELSE <<"\n">>)

InputTexts ==
    UNION {{Render(OcrTokens(base, n, 0, <<>>))}
           \cup {Render(OcrTokens(base, n, p, f)) : p \in 1..n, f \in Fragments} :
           base \in Bases, n \in 0..MaxTokens}

----------------------------------------------------------------------------
(* Specification of one parse: _parse_planetary_text_improved on an OCR text *)

NoAnalysis ==
    [activated_gates |-> {}, defined_channels |-> <<>>, defined_centers |-> {},
     red_gates |-> <<>>, black_gates |-> <<>>]

NoSummary ==
    [conscious_gates |-> <<>>, unconscious_gates |-> <<>>,
     conscious_gate_numbers |-> <<>>, unconscious_gate_numbers |-> <<>>,
     conscious_only |-> {}, unconscious_only |-> {}, both_conscious_unconscious |-> {},
     summary |-> [total_unique_gates |-> 0, conscious_only_count |-> 0,
                  unconscious_only_count |-> 0, both_count |-> 0]]

\* the reference tables of an instance: the keys of self.channels and of
\* self.gates, self.center_gate_layouts and self.planetary_order, as __init__
\* assigns them
ReferenceTables ==
    [channels |-> channels, gates |-> gates,
     center_gate_layouts |-> center_gate_layouts, planetary_order |-> planetary_order]

\* no instance, no attribute
NoTables ==
    [channels |-> <<>>, gates |-> {}, center_gate_layouts |-> <<>>, planetary_order |-> <<>>]

\* no instance constructed and no commentary requested
NoCommentary ==
    /\ credentials = FALSE
    /\ failing_gates = {}
    /\ instance = "none"
    /\ chatgpt = "None"
    /\ reference_tables = NoTables
    /\ web_call = <<>>

\* extract_numbers_hybrid not called
NoHybrid ==
    /\ hybrid_image = [loadable |-> FALSE]
    /\ hybrid_numbers = <<>>

\* no batch under way
NoBatch ==
    /\ batch = <<>>
    /\ position = 0
    /\ results = <<>>
    /\ escaped = FALSE

Init ==
    /\ text \in InputTexts
    /\ all_numbers = <<>>
    /\ number_pairs = <<>>
    /\ ocr_corrected_pairs = <<>>
    /\ resolver_called = FALSE
    /\ corrected_pairs = <<>>
    /\ planetary_data = <<>>
    /\ red_numbers = <<>>
    /\ black_numbers = <<>>
    /\ center_analysis = NoAnalysis
    /\ module_analysis = NoAnalysis
    /\ gate_summary = NoSummary
    /\ calls = <<>>
    /\ NoCommentary
    /\ NoBatch
    /\ done = {}
    /\ NoHybrid

ParsePlanetaryTextImproved ==
    /\ "parse" \notin done
    /\ all_numbers' = FindAll(CollapseWhitespace(ReplaceDisallowed(text)))
    /\ number_pairs' = MakePairs(all_numbers')
    /\ LET r == ApplyShiftCorrection(number_pairs')
       IN  /\ resolver_called' = r.called
           /\ ocr_corrected_pairs' = r.ocr_corrected_pairs
           /\ corrected_pairs' = r.corrected_pairs
    /\ planetary_data' = AssignPlanets(corrected_pairs')
    /\ done' = done \cup {"parse"}
    /\ UNCHANGED <<text, channelVars, calls, commentaryVars, batchVars, hybridVars>>

Next == ParsePlanetaryTextImproved

Spec == Init /\ [][Next]_vars

----------------------------------------------------------------------------
(* Properties of one parse *)

Parsed == "parse" \in done

Smaller(a, b) == IF a < b THEN a ELSE b

\* the two tokens of a raw pair, corrected by the table
CorrectedPair(pair) == <<CorrectOcrNumber(pair[1]), CorrectOcrNumber(pair[2])>>

TokensOf(pairs) == {pairs[i][1] : i \in 1..Len(pairs)} \cup {pairs[i][2] : i \in 1..Len(pairs)}

\* C1: the output pairs at positions 0..4 are exactly the input pairs at
\* positions 0..4, whatever the rest of the list contains.
C1_FirstFiveVerbatim ==
    Parsed =>
        /\ Len(corrected_pairs) >= Smaller(5, Len(number_pairs))
        /\ \A i \in 1..Smaller(5, Len(number_pairs)) : corrected_pairs[i] = number_pairs[i]

\* a list whose first five pairs hold a key of the correction table and whose
\* later pairs were changed by the resolver
C1_Witness ==
    /\ Parsed /\ resolver_called
    /\ TokensOf(SubSeq(number_pairs, 1, 5)) \cap CorrectionKeys # {}
    /\ corrected_pairs # number_pairs
    /\ SubSeq(corrected_pairs, 1, 5) = SubSeq(number_pairs, 1, 5)

\* C2: every gate.line value of the final planetary reading has its gate in
\* 1..64 and its line in 1..6.
C2_ReadingInRange ==
    Parsed =>
        \A planet \in DOMAIN planetary_data :
            /\ planetary_data[planet].personality.gate \in 1..64
            /\ planetary_data[planet].personality.line \in 1..6
            /\ planetary_data[planet].design.gate \in 1..64
            /\ planetary_data[planet].design.line \in 1..6

\* C3: every output pair of the resolver is an input pair, possibly corrected
\* token by token by the table, and the output never has more pairs than the
\* input (no default stands in for a planet that could not be resolved).
C3_NoInventedPair ==
    Parsed =>
        /\ \A i \in 1..Len(corrected_pairs) :
                \E j \in 1..Len(number_pairs) :
                    \/ corrected_pairs[i] = number_pairs[j]
                    \/ corrected_pairs[i] = CorrectedPair(number_pairs[j])
        /\ Len(corrected_pairs) <= Len(number_pairs)
        /\ (Len(number_pairs) < 13 => Len(corrected_pairs) < 13)

\* the precondition of C4: 13 raw pairs, every token in range, no token a key
\* of the correction table, no pair a known-bad pattern
C4_CleanThirteen ==
    /\ Len(number_pairs) = 13
    /\ \A tok \in TokensOf(number_pairs) :
            /\ GateOf(tok) \in 1..64 /\ LineOf(tok) \in 1..6
            /\ tok \notin CorrectionKeys
    /\ \A i \in 1..13 :
            number_pairs[i] \notin { << <<"8", "7", ".", "2">>, <<"1", "7", ".", "6">> >>,
                                    << <<"2", "7", ".", "5">>, <<"1", "7", ".", "6">> >> }

\* C4: a clean 13-pair list passes the plausibility check and is returned
\* unchanged, and the 13 planets are populated in the fixed order with the
\* values of the input pairs.
C4_CleanListKept ==
    (Parsed /\ C4_CleanThirteen) =>
        /\ resolver_called
        /\ IsOcrDataReasonable(ocr_corrected_pairs)
        /\ corrected_pairs = number_pairs
        /\ DOMAIN planetary_data = {planetary_order[k] : k \in 1..13}
        /\ \A k \in 1..13 :
            LET slot == planetary_data[planetary_order[k]]
            IN  /\ slot.personality.gate = GateOf(number_pairs[k][1])
                /\ slot.personality.line = LineOf(number_pairs[k][1])
                /\ slot.design.gate = GateOf(number_pairs[k][2])
                /\ slot.design.line = LineOf(number_pairs[k][2])

\* the reference list, from (42.5, 62.3), (32.3, 61.3) to (14.4, 50.4), resolved
C4_Witness ==
    /\ Parsed /\ C4_CleanThirteen
    /\ number_pairs[1] = << <<"4", "2", ".", "5">>, <<"6", "2", ".", "3">> >>
    /\ number_pairs[2] = << <<"3", "2", ".", "3">>, <<"6", "1", ".", "3">> >>
    /\ number_pairs[13] = << <<"1", "4", ".", "4">>, <<"5", "0", ".", "4">> >>
    /\ corrected_pairs = number_pairs
    /\ planetary_data["Pluto"].personality.gate = 14

\* the correction table as the claim gives it
C5_Table ==
    { << <<"8", "7", ".", "2">>, <<"2", "7", ".", "5">> >>,
      << <<"0", "1", ".", "3">>, <<"1", ".", "3">> >>,
      << <<"6", "9", ".", "5">>, <<"9", ".", "5">> >>,
      << <<"4", "2", ".", "1">>, <<"2", ".", "1">> >> }

\* C5: the pairs handed to the plausibility check and to the matching are the
\* pairs of positions 5 and later with every table key replaced by its value
\* and every other token unchanged.
C5_CorrectedBeforeCheck ==
    (Parsed /\ Len(number_pairs) >= 6) =>
        /\ resolver_called
        /\ Len(ocr_corrected_pairs) = Len(number_pairs) - 5
        /\ \A i \in 1..Len(ocr_corrected_pairs) : \A side \in 1..2 :
            LET raw == number_pairs[i + 5][side]
                seen == ocr_corrected_pairs[i][side]
            IN  /\ \A kv \in C5_Table : raw = kv[1] => seen = kv[2]
                /\ (\A kv \in C5_Table : raw # kv[1]) => seen = raw
                /\ \A kv \in C5_Table : seen # kv[1]

\* "87.2" read at position 6 is seen as "27.5" by the check
C5_Witness ==
    /\ Parsed /\ Len(number_pairs) >= 7
    /\ number_pairs[7][1] = <<"8", "7", ".", "2">>
    /\ ocr_corrected_pairs[2][1] = <<"2", "7", ".", "5">>

\* C6: in every populated slot the personality value is the second token of
\* the pair (black column) and the design value is the first (red column).
C6_PersonalityIsBlack ==
    Parsed =>
        \A k \in 1..Smaller(13, Len(corrected_pairs)) :
            LET slot == planetary_data[planetary_order[k]]
            IN  /\ slot.personality.gate = GateOf(corrected_pairs[k][2])
                /\ slot.personality.line = LineOf(corrected_pairs[k][2])
                /\ slot.design.gate = GateOf(corrected_pairs[k][1])
                /\ slot.design.line = LineOf(corrected_pairs[k][1])

\* C8: n tokens give floor(n/2) pairs, pair i holds tokens 2i and 2i+1 (counted
\* from 0), and a last token of odd position is in no pair.
C8_PairsOfTokens ==
    Parsed =>
        /\ Len(number_pairs) = Len(all_numbers) \div 2
        /\ \A i \in 1..Len(number_pairs) :
                number_pairs[i] = <<all_numbers[2 * i - 1], all_numbers[2 * i]>>

\* an odd number of tokens, the last one left out
C8_Witness ==
    /\ Parsed /\ Len(all_numbers) % 2 = 1 /\ Len(all_numbers) >= 3
    /\ 2 * Len(number_pairs) = Len(all_numbers) - 1

\* the fixed order of the planets as the claim gives it
C9_Order ==
    <<"Sun", "Earth", "Moon", "North Node", "South Node", "Mercury", "Venus",
      "Mars", "Jupiter", "Saturn", "Uranus", "Neptune", "Pluto">>

\* C9: at most 13 slots are populated, they are a prefix of the fixed order,
\* the k-th output pair of the resolver is the k-th planet, and pairs beyond
\* the 13th are ignored.
C9_PrefixOfPlanets ==
    Parsed =>
        /\ Cardinality(DOMAIN planetary_data) <= 13
        /\ DOMAIN planetary_data = {C9_Order[k] : k \in 1..Smaller(13, Len(corrected_pairs))}
        /\ \A k \in 1..Smaller(13, Len(corrected_pairs)) :
            LET slot == planetary_data[C9_Order[k]]
            IN  /\ slot.personality.gate = GateOf(corrected_pairs[k][1])
                /\ slot.personality.line = LineOf(corrected_pairs[k][1])
                /\ slot.design.gate = GateOf(corrected_pairs[k][2])
                /\ slot.design.line = LineOf(corrected_pairs[k][2])

\* more than 13 output pairs: 13 slots, Pluto from the 13th pair
C9_Witness ==
    /\ Parsed /\ Len(corrected_pairs) > 13
    /\ Cardinality(DOMAIN planetary_data) = 13
    /\ corrected_pairs[14] # corrected_pairs[13]
    /\ planetary_data["Pluto"].personality.gate = GateOf(corrected_pairs[13][1])

\* the pairs the resolver returned for positions 5 and later
ResolvedRest == SubSeq(corrected_pairs, 6, Len(corrected_pairs))

\* the three conditions of the plausibility check, on the corrected pairs of
\* positions 5 and later
C18_InRange(number) ==
    /\ GateOf(number) >= 1 /\ GateOf(number) <= 64
    /\ LineOf(number) >= 1 /\ LineOf(number) <= 6

C18_Conditions ==
    /\ Len(ocr_corrected_pairs) >= 6
    /\ \A i \in 1..Len(ocr_corrected_pairs) :
            /\ ocr_corrected_pairs[i] # << <<"8", "7", ".", "2">>, <<"1", "7", ".", "6">> >>
            /\ ocr_corrected_pairs[i] # << <<"2", "7", ".", "5">>, <<"1", "7", ".", "6">> >>
    /\ 100 * Cardinality({i \in 1..Len(ocr_corrected_pairs) :
                            /\ C18_InRange(ocr_corrected_pairs[i][1])
                            /\ C18_InRange(ocr_corrected_pairs[i][2])})
            >= 90 * Len(ocr_corrected_pairs)

\* C18: the plausibility check returns true exactly when the list has at
\* least 6 pairs, no pair is a known-bad pattern and at least 90% of the pairs
\* are in range on both sides; when it returns true the resolver returns the
\* pairs unchanged.
C18_PlausibleIffConditions ==
    (Parsed /\ resolver_called) =>
        /\ IsOcrDataReasonable(ocr_corrected_pairs) <=> C18_Conditions
        /\ C18_Conditions => ResolvedRest = ocr_corrected_pairs

\* ten pairs of which exactly nine are in range: accepted at 90%, the pair out
\* of range returned with the others
C18_Witness ==
    /\ Parsed /\ resolver_called
    /\ Len(ocr_corrected_pairs) = 10
    /\ Cardinality({i \in 1..10 : /\ C18_InRange(ocr_corrected_pairs[i][1])
                                  /\ C18_InRange(ocr_corrected_pairs[i][2])}) = 9
    /\ C18_Conditions
    /\ ResolvedRest = ocr_corrected_pairs

\* the fixed literal set, Mercury to Pluto
C19_FixedSet ==
    << << <<"2", "7", ".", "5">>, <<"7", ".", "2">> >>,
       << <<"1", "7", ".", "6">>, <<"5", "6", ".", "6">> >>,
       << <<"1", "4", ".", "4">>, <<"1", ".", "3">> >>,
       << <<"3", "8", ".", "4">>, <<"5", "8", ".", "3">> >>,
       << <<"1", ".", "2">>, <<"4", "4", ".", "3">> >>,
       << <<"5", ".", "2">>, <<"9", ".", "5">> >>,
       << <<"1", "0", ".", "4">>, <<"1", "0", ".", "2">> >>,
       << <<"5", "0", ".", "5">>, <<"5", "0", ".", "4">> >> >>

\* C19: with at least 6 corrected pairs at positions 5 and later that fail the
\* plausibility check, the resolver returns the fixed literal set whatever the
\* candidates are; only a list of fewer than 6 pairs is matched against the
\* expected pairs, and what comes back then are candidates of the list.
C19_FixedSetFromSixPairs ==
    (Parsed /\ resolver_called) =>
        /\ (Len(ocr_corrected_pairs) >= 6 /\ ~C18_Conditions) => ResolvedRest = C19_FixedSet
        /\ Len(ocr_corrected_pairs) < 6 =>
                \A k \in 1..Len(ResolvedRest) :
                    \E i \in 1..Len(ocr_corrected_pairs) : ResolvedRest[k] = ocr_corrected_pairs[i]

\* six pairs failing the check, one of them a pair of the fixed set: the
\* matching would return that pair alone, the resolver returns the eight
C19_Witness ==
    /\ Parsed /\ resolver_called
    /\ Len(ocr_corrected_pairs) >= 6 /\ ~C18_Conditions
    /\ \E i \in 1..Len(ocr_corrected_pairs) : ocr_corrected_pairs[i] = C19_FixedSet[1]
    /\ \E k \in 1..8 : \A i \in 1..Len(ocr_corrected_pairs) :
            /\ ocr_corrected_pairs[i][1] # C19_FixedSet[k][1]
            /\ ocr_corrected_pairs[i][2] # C19_FixedSet[k][2]
    /\ ResolvedRest = C19_FixedSet

\* the score of a candidate against an expected pair, as the claim gives it
C20_Score(candidate, expected) ==
    LET red_equal == candidate[1] = expected[1]
        black_equal == candidate[2] = expected[2]
    IN  IF red_equal /\ black_equal THEN 3
        ELSE IF red_equal # black_equal THEN 2
        ELSE 0

\* the candidate selected for every expected pair (0 for none), when the
\* matching ran on the corrected pairs of the last parse
C20_Selected == SelectedFrom(ocr_corrected_pairs, 1, {}, <<>>)

C20_MatchingRan == Parsed /\ resolver_called /\ Len(ocr_corrected_pairs) < 6

\* C20: the 8 expected pairs are taken in order; for each, among the
\* candidates not selected before, the one with the highest score above 0 is
\* selected, the earliest on a tie, with scores 3, 2 and 0; no candidate is
\* selected twice, none with score 0, and the selected candidates, in the
\* order of the expected pairs, are what the resolver returns.
C20_GreedyMatching ==
    C20_MatchingRan =>
        LET pairs == ocr_corrected_pairs
            sel == C20_Selected
            chosen == SelectSeq(sel, LAMBDA b : b # 0)
        IN  /\ Len(sel) = 8
            /\ \A e \in 1..8 :
                LET unused == (1..Len(pairs)) \ {sel[d] : d \in 1..(e - 1)}
                    score(i) == C20_Score(pairs[i], expected_values[e])
                IN  /\ \A i \in 1..Len(pairs) :
                            Score(pairs[i], expected_values[e]) = score(i)
                    /\ IF sel[e] = 0
                       THEN \A i \in unused : score(i) = 0
                       ELSE /\ sel[e] \in unused
                            /\ score(sel[e]) > 0
                            /\ \A i \in unused : score(i) <= score(sel[e])
                            /\ \A i \in unused : score(i) = score(sel[e]) => sel[e] <= i
            /\ \A d, e \in 1..8 : (d # e /\ sel[d] # 0) => sel[d] # sel[e]
            /\ ResolvedRest = IF chosen = <<>> THEN pairs
                              ELSE [k \in 1..Len(chosen) |-> pairs[chosen[k]]]

\* five candidates: one selected on a score of 2 before any later expected
\* pair is looked at, a later expected pair left without a match because the
\* only candidate that scores against it is already used, and a tie between
\* two candidates decided for the earlier one
C20_Witness ==
    /\ C20_MatchingRan /\ Len(ocr_corrected_pairs) = 5
    /\ \E e \in 1..8 :
            /\ C20_Selected[e] = 0
            /\ \E d \in 1..(e - 1) :
                    /\ C20_Selected[d] # 0
                    /\ C20_Score(ocr_corrected_pairs[C20_Selected[d]], expected_values[e]) = 2
    /\ \E e \in 1..8 : \E i \in 1..5 :
            /\ C20_Selected[e] # 0 /\ C20_Selected[e] < i
            /\ i \notin {C20_Selected[d] : d \in 1..(e - 1)}
            /\ C20_Score(ocr_corrected_pairs[i], expected_values[e])
                    = C20_Score(ocr_corrected_pairs[C20_Selected[e]], expected_values[e])
    /\ Len(ResolvedRest) < 5

\* C21: what the matching step returns for positions 5 and later are the
\* selected candidates and nothing else: an expected pair without a scoring
\* candidate contributes nothing, and when none of the expected pairs finds a
\* match the reading has the first 5 pairs only.
C21_OnlySelectedCandidates ==
    C20_MatchingRan =>
        LET chosen == SelectSeq(C20_Selected, LAMBDA b : b # 0)
        IN  /\ ResolvedRest = [k \in 1..Len(chosen) |-> ocr_corrected_pairs[chosen[k]]]
            /\ chosen = <<>> => Len(corrected_pairs) = 5

\* the text with every character deleted that is not a digit, a period or
\* whitespace
C22_Deleted(s) ==
    SelectSeq(s, LAMBDA c : IsDigit(c) \/ c = "." \/ IsSpace(c))

\* C22: the tokens found are the gate.line tokens, from left to right and
\* without overlap, of the text with its disallowed characters deleted and
\* its whitespace runs collapsed to one space.
C22_TokensOfDeletedText ==
    Parsed => all_numbers = FindAll(CollapseWhitespace(C22_Deleted(text)))

\* every token of the raw pairs has its gate in 1..64 and its line in 1..6,
\* none is a key of the correction table, no pair is a known-bad pattern
C27_AllValid ==
    \A i \in 1..Len(number_pairs) :
        /\ \A c \in 1..2 :
                /\ GateOf(number_pairs[i][c]) \in 1..64
                /\ LineOf(number_pairs[i][c]) \in 1..6
                /\ number_pairs[i][c] \notin CorrectionKeys
        /\ number_pairs[i] \notin problematic_patterns

\* C27: a raw pair list of valid tokens, of any length, comes out of the
\* resolver as it went in: every pair at its position, none dropped, moved
\* or replaced.
C27_ValidPairsKept ==
    (Parsed /\ C27_AllValid) => corrected_pairs = number_pairs

\* C28: the candidate the matching step selects for the expected pair of a
\* planet, Mercury to Pluto, is the reading of that planet, whether or not
\* the expected pairs before it found a match.
C28_SelectedGoesToItsPlanet ==
    C20_MatchingRan =>
        \A e \in 1..Len(expected_values) :
            C20_Selected[e] # 0 =>
                LET planet == planetary_order[5 + e]
                    candidate == ocr_corrected_pairs[C20_Selected[e]]
                IN  /\ planet \in DOMAIN planetary_data
                    /\ planetary_data[planet].personality.gate = GateOf(candidate[1])
                    /\ planetary_data[planet].personality.line = LineOf(candidate[1])
                    /\ planetary_data[planet].design.gate = GateOf(candidate[2])
                    /\ planetary_data[planet].design.line = LineOf(candidate[2])

----------------------------------------------------------------------------
(* Specification of the channel analysis on red and black gate.line lists *)

\* the gate.line values the lists are drawn from: gates 2 and 14 (a channel
\* keyed both ways), 10, 20, 34 and 57 (channels that share gates)
GateLineValues ==
    { FormatGateLine(2, 1), FormatGateLine(14, 4), FormatGateLine(10, 4),
      FormatGateLine(20, 6), FormatGateLine(34, 6), FormatGateLine(57, 3) }

\* the longest red list and the longest black list
MaxRed == 2

MaxBlack == 1

ListsUpTo(S, n) == UNION {[1..k -> S] : k \in 0..n}

InitChannels ==
    /\ red_numbers \in ListsUpTo(GateLineValues, MaxRed)
    /\ black_numbers \in ListsUpTo(GateLineValues, MaxBlack)
    /\ text = <<>>
    /\ all_numbers = <<>>
    /\ number_pairs = <<>>
    /\ ocr_corrected_pairs = <<>>
    /\ resolver_called = FALSE
    /\ corrected_pairs = <<>>
    /\ planetary_data = <<>>
    /\ center_analysis = NoAnalysis
    /\ module_analysis = NoAnalysis
    /\ gate_summary = NoSummary
    /\ calls = <<>>
    /\ NoCommentary
    /\ NoBatch
    /\ done = {}
    /\ NoHybrid

\* BodyGraphOCR.analyze_center_definitions(red_numbers, black_numbers)
ClassAnalysis ==
    /\ "class" \notin done
    /\ center_analysis' = AnalyzeCenterDefinitions(red_numbers, black_numbers)
    /\ done' = done \cup {"class"}
    /\ UNCHANGED <<parseVars, red_numbers, black_numbers, module_analysis, gate_summary,
                   calls, commentaryVars, batchVars, hybridVars>>

\* channel_definitions.analyze_center_definitions(red_numbers, black_numbers)
ModuleAnalysis ==
    /\ "module" \notin done
    /\ module_analysis' = ModuleAnalyzeCenterDefinitions(red_numbers, black_numbers)
    /\ done' = done \cup {"module"}
    /\ UNCHANGED <<parseVars, red_numbers, black_numbers, center_analysis, gate_summary,
                   calls, commentaryVars, batchVars, hybridVars>>

\* BodyGraphOCR.summarize_conscious_unconscious_gates(red_numbers, black_numbers)
GateSummary ==
    /\ "summary" \notin done
    /\ gate_summary' = SummarizeConsciousUnconsciousGates(red_numbers, black_numbers)
    /\ done' = done \cup {"summary"}
    /\ UNCHANGED <<parseVars, red_numbers, black_numbers, center_analysis, module_analysis,
                   calls, commentaryVars, batchVars, hybridVars>>

NextChannels == ClassAnalysis \/ ModuleAnalysis \/ GateSummary

SpecChannels == InitChannels /\ [][NextChannels]_vars

\* the gates of the red list and of the black list together
C10_Activated ==
    {GateOf(red_numbers[i]) : i \in 1..Len(red_numbers)}
        \cup {GateOf(black_numbers[i]) : i \in 1..Len(black_numbers)}

C10_Reported(defined_channels) ==
    {defined_channels[j].gates : j \in 1..Len(defined_channels)}

\* C10: a channel is reported as defined exactly when both its gates are in
\* the union of the red and black gate sets, in both implementations, and the
\* test gives the same answer with the two gates of the key exchanged.  No key
\* of the class table is held back by the test on its centers: with its two
\* gates added to the activated gates it is defined.
C10_DefinedIffBothGates ==
    LET act == C10_Activated
        class_reported == C10_Reported(center_analysis.defined_channels)
        module_reported == C10_Reported(module_analysis.defined_channels)
    IN  /\ "class" \in done =>
            \A i \in 1..Len(channels) :
                /\ channels[i] \in class_reported
                        <=> (channels[i][1] \in act /\ channels[i][2] \in act)
                /\ ChannelIsDefined(channels[i][1], channels[i][2], act)
                        <=> ChannelIsDefined(channels[i][2], channels[i][1], act)
                /\ ChannelIsDefined(channels[i][1], channels[i][2],
                                    act \cup {channels[i][1], channels[i][2]})
        /\ "module" \in done =>
            \A i \in 1..Len(HUMAN_DESIGN_CHANNELS) :
                LET key == HUMAN_DESIGN_CHANNELS[i].gates
                IN  /\ key \in module_reported
                            <=> (key[1] \in act /\ key[2] \in act)
                    /\ ModuleChannelIsDefined(key[1], key[2], act)
                            <=> ModuleChannelIsDefined(key[2], key[1], act)

\* gates 2 and 14 from different columns: the channel is reported under both
\* of its keys, and channel 10-20 with only gate 10 activated is not
C10_Witness ==
    /\ done = {"class", "module"}
    /\ C10_Activated = {2, 10, 14}
    /\ <<2, 14>> \in C10_Reported(center_analysis.defined_channels)
    /\ <<14, 2>> \in C10_Reported(center_analysis.defined_channels)
    /\ <<14, 2>> \in C10_Reported(module_analysis.defined_channels)
    /\ <<10, 20>> \notin C10_Reported(center_analysis.defined_channels)

\* the centers whose gate list in the gate-to-center table holds the gate,
\* for the gates a token of one or two digits can name
C23_Owners ==
    [gate \in 0..99 |->
        {center_gate_layouts[c].center :
            c \in {d \in 1..Len(center_gate_layouts) :
                        \E k \in 1..Len(center_gate_layouts[d].gates) :
                            center_gate_layouts[d].gates[k] = gate}}]

\* the centers that own a gate of a reported channel
C23_Connected(reported) ==
    UNION {C23_Owners[reported[j].gates[1]] \cup C23_Owners[reported[j].gates[2]] :
                j \in 1..Len(reported)}

\* every reported channel has two distinct centers, the owner of its first
\* gate and the owner of its second gate
C23_TwoOwners(reported) ==
    \A j \in 1..Len(reported) :
        /\ Len(reported[j].centers) = 2
        /\ reported[j].centers[1] # reported[j].centers[2]
        /\ C23_Owners[reported[j].gates[1]] = {reported[j].centers[1]}
        /\ C23_Owners[reported[j].gates[2]] = {reported[j].centers[2]}

\* the channels find_defined_channels reports when the two gates of a key are
\* the activated gates
C23_Alone(key) == FindDefinedChannels({key[1], key[2]})

\* every key of the channel table, its two gates being the activated gates
C23_EveryKey ==
    \A i \in 1..Len(channels) :
        /\ C23_Alone(channels[i]) # <<>>
        /\ C23_TwoOwners(C23_Alone(channels[i]))
        /\ DetermineDefinedCenters(C23_Alone(channels[i]))
                = C23_Connected(C23_Alone(channels[i]))

\* C23: every defined channel is reported with two distinct centers, the
\* owners of its first and of its second gate in the gate-to-center table, and
\* the defined centers are exactly the centers that own a gate of a defined
\* channel; the same holds of every key of the channel table when its two
\* gates are the activated gates.
C23_DefinedCentersAreOwners ==
    "class" \in done =>
        LET dc == center_analysis.defined_channels
        IN  /\ C23_TwoOwners(dc)
            /\ center_analysis.defined_centers = C23_Connected(dc)
            /\ \A c \in {center_gate_layouts[d].center : d \in 1..Len(center_gate_layouts)} :
                    c \in center_analysis.defined_centers
                        <=> \E j \in 1..Len(dc) : c \in SeqToSet(dc[j].centers)
            /\ C23_EveryKey

\* gates 10, 20 and 57: three defined channels that connect the G, Throat and
\* Spleen centers, each center the second center of one of them, and the
\* Sacral center, whose gate 34 is not activated, not defined
C23_Witness ==
    /\ "class" \in done
    /\ center_analysis.activated_gates = {10, 20, 57}
    /\ Len(center_analysis.defined_channels) = 3
    /\ center_analysis.defined_centers = {"G", "Throat", "Spleen"}
    /\ \E j \in 1..3 : center_analysis.defined_channels[j].centers = <<"G", "Spleen">>

\* C24: the channel table holds 36 channels, each once: no unordered gate
\* pair is reported more than once, never more than 36 channels are reported,
\* and the number of defined channels is the number of distinct channels with
\* both gates activated.
C24_EachChannelOnce ==
    "class" \in done =>
        LET dc == center_analysis.defined_channels
            act == center_analysis.activated_gates
            Unordered(key) == {key[1], key[2]}
        IN  /\ \A i, j \in 1..Len(dc) :
                    i # j => Unordered(dc[i].gates) # Unordered(dc[j].gates)
            /\ Len(dc) <= 36
            /\ Len(dc) = Cardinality({Unordered(channels[i]) : i \in
                                        {k \in 1..Len(channels) :
                                            Unordered(channels[k]) \subseteq act}})

\* the channels of an analysis as unordered gate pairs, each with the set of
\* its two centers
C29_Channels(analysis) ==
    {[gates |-> SeqToSet(analysis.defined_channels[j].gates),
      centers |-> SeqToSet(analysis.defined_channels[j].centers)] :
        j \in 1..Len(analysis.defined_channels)}

\* C29: on the same red and black lists the analysis of channel_definitions.py
\* and the one of BodyGraphOCR report the same defined channels, as unordered
\* gate pairs, with the same two centers each, and the same defined centers.
C29_SameAnalysis ==
    ("class" \in done /\ "module" \in done) =>
        /\ {c.gates : c \in C29_Channels(module_analysis)}
                = {c.gates : c \in C29_Channels(center_analysis)}
        /\ C29_Channels(module_analysis) = C29_Channels(center_analysis)
        /\ module_analysis.defined_centers = center_analysis.defined_centers

\* the gates of the red list and the gates of the black list
C11_RedDerived == {GateOf(red_numbers[i]) : i \in 1..Len(red_numbers)}

C11_BlackDerived == {GateOf(black_numbers[i]) : i \in 1..Len(black_numbers)}

\* C11: conscious_only holds the gates only in the black-derived set,
\* unconscious_only the gates only in the red-derived set and both the gates in
\* the two sets; the three are pairwise disjoint, their union is the set of all
\* activated gates, and their counts add up to total_unique_gates.
C11_SetsPartitionActivated ==
    "summary" \in done =>
        LET co == gate_summary.conscious_only
            uo == gate_summary.unconscious_only
            bo == gate_summary.both_conscious_unconscious
            counts == gate_summary.summary
        IN  /\ \A g \in co : g \in C11_BlackDerived /\ g \notin C11_RedDerived
            /\ \A g \in uo : g \in C11_RedDerived /\ g \notin C11_BlackDerived
            /\ \A g \in bo : g \in C11_RedDerived /\ g \in C11_BlackDerived
            /\ co \cap uo = {} /\ co \cap bo = {} /\ uo \cap bo = {}
            /\ co \cup uo \cup bo = C11_RedDerived \cup C11_BlackDerived
            /\ counts.conscious_only_count = Cardinality(co)
            /\ counts.unconscious_only_count = Cardinality(uo)
            /\ counts.both_count = Cardinality(bo)
            /\ counts.conscious_only_count + counts.unconscious_only_count
                    + counts.both_count = counts.total_unique_gates
            /\ counts.total_unique_gates = Cardinality(C11_RedDerived \cup C11_BlackDerived)

\* a gate in both columns, one only red: none of the three sets is the whole
C11_Witness ==
    /\ "summary" \in done
    /\ Len(red_numbers) = 2 /\ Len(black_numbers) = 1
    /\ gate_summary.both_conscious_unconscious = C11_BlackDerived
    /\ Cardinality(gate_summary.unconscious_only) = 1
    /\ gate_summary.conscious_only = {}
    /\ gate_summary.summary.total_unique_gates = 2

----------------------------------------------------------------------------
(* Specification of the commentary: an instance is constructed, then
   fetch_gate_web_info is called on it *)

\* the gate numbers fetch_gate_web_info is called with: the 64 gates and one
\* number on each side of them
FetchGates == 0..65

ActivationTypes == {BothConsciousAndUnconscious, ConsciousOnly, UnconsciousOnly}

\* the sets of gates whose request the service fails
FailingSets == {{}, {5}, {5, 20}, FetchGates}

InitCommentary ==
    /\ credentials \in BOOLEAN
    /\ failing_gates \in FailingSets
    /\ instance = "none"
    /\ chatgpt = "None"
    /\ reference_tables = NoTables
    /\ web_call = <<>>
    /\ text = <<>>
    /\ all_numbers = <<>>
    /\ number_pairs = <<>>
    /\ ocr_corrected_pairs = <<>>
    /\ resolver_called = FALSE
    /\ corrected_pairs = <<>>
    /\ planetary_data = <<>>
    /\ red_numbers = <<>>
    /\ black_numbers = <<>>
    /\ center_analysis = NoAnalysis
    /\ module_analysis = NoAnalysis
    /\ gate_summary = NoSummary
    /\ calls = <<>>
    /\ NoBatch
    /\ done = {}
    /\ NoHybrid

\* BodyGraphOCR(enable_chatgpt), with chatgpt_integration importable or not
Construct(enable_chatgpt, CHATGPT_AVAILABLE) ==
    /\ instance = "none"
    /\ LET r == BodyGraphOCRInit(enable_chatgpt, CHATGPT_AVAILABLE, credentials)
       IN  /\ instance' = r.instance
           /\ chatgpt' = r.chatgpt
           /\ reference_tables' = IF r.instance = "constructed" THEN ReferenceTables
                                  ELSE reference_tables
    /\ UNCHANGED <<parseVars, channelVars, calls, credentials, failing_gates, web_call,
                   batchVars, hybridVars, done>>

\* self.fetch_gate_web_info(gate_num, activation_type)
FetchCall(gate_num, activation_type) ==
    /\ instance = "constructed"
    /\ web_call' = << [gate_num |-> gate_num, activation_type |-> activation_type,
                       result |-> FetchGateWebInfo(chatgpt, gate_num, activation_type,
                                                   gate_num \in failing_gates)] >>
    /\ UNCHANGED <<parseVars, channelVars, calls, credentials, failing_gates, instance,
                   chatgpt, reference_tables, batchVars, hybridVars, done>>

NextCommentary ==
    \/ \E enable_chatgpt \in BOOLEAN, CHATGPT_AVAILABLE \in BOOLEAN :
            Construct(enable_chatgpt, CHATGPT_AVAILABLE)
    \/ \E gate_num \in FetchGates, activation_type \in ActivationTypes :
            FetchCall(gate_num, activation_type)

SpecCommentary == InitCommentary /\ [][NextCommentary]_vars

\* the built-in explanation as the code words it, for the three activation types
C14_InfoType(activation_type) ==
    CASE activation_type = <<"Both", "Conscious", "and", "Unconscious">>
            -> "Conscious & Unconscious"
      [] activation_type = <<"Conscious", "Only", "(Black)">>
            -> "Conscious Personality (Black)"
      [] activation_type = <<"Unconscious", "Only", "(Red)">>
            -> "Unconscious Design (Red)"

\* C14: without credentials the construction completes with no commentary
\* client, and every call of fetch_gate_web_info returns the built-in
\* explanation of the gate and the activation type, never an error text.
C14_StaticWithoutCredentials ==
    (~credentials /\ instance # "none") =>
        /\ instance = "constructed"
        /\ chatgpt = "None"
        /\ \A k \in 1..Len(web_call) :
            LET r == web_call[k].result
            IN  /\ r.kind = "static"
                /\ r.info_type = C14_InfoType(web_call[k].activation_type)
                /\ r.insights.key = web_call[k].activation_type[1]
                /\ r.insights.gate \in {0, web_call[k].gate_num}

\* no credentials, the service failing for every gate: the built-in text of
\* gate 5, unconscious
C14_Witness ==
    /\ ~credentials /\ instance = "constructed" /\ failing_gates = FetchGates
    /\ web_call # <<>>
    /\ web_call[1].gate_num = 5
    /\ web_call[1].activation_type = <<"Unconscious", "Only", "(Red)">>
    /\ web_call[1].result.kind = "static"
    /\ web_call[1].result.insights = [gate |-> 5, key |-> "Unconscious"]

\* C15: when the request fails for a gate while a client is configured, the
\* text returned for the gate is the text returned for that gate and
\* activation type when no commentary service is configured.
C15_FailureGivesStaticText ==
    \A k \in 1..Len(web_call) :
        (chatgpt = "client" /\ web_call[k].gate_num \in failing_gates) =>
            web_call[k].result =
                FetchGateWebInfo("None", web_call[k].gate_num,
                                 web_call[k].activation_type, FALSE)

----------------------------------------------------------------------------
(* Specification of the batch: main constructs one instance and runs
   process_bodygraph and save_results on every image of the directory *)

\* the OCR text of the calibration chart, and of its first three rows
ReferenceText == Render(OcrTokens(ReferencePairs, 2 * Len(ReferencePairs), 0, <<>>))

ShortText == Render(OcrTokens(ReferencePairs, 6, 0, <<>>))

Image(loadable, width, height, ocr_raises, ocr_text) ==
    [loadable |-> loadable, width |-> width, height |-> height,
     ocr_raises |-> ocr_raises, ocr_text |-> ocr_text]

\* the images of a batch: a file cv2.imread cannot read; charts of 800 x 1200
\* on which the OCR gives the chart, three rows, nothing, or raises; a chart of
\* 29 x 25, the smallest with a pixel in the region; images with no pixel in
\* the region, by their width (28, and 5 where width - 10 is negative) or by
\* their height (24)
ImageKinds ==
    { Image(FALSE, 0, 0, FALSE, <<>>),
      Image(TRUE, 800, 1200, FALSE, ReferenceText),
      Image(TRUE, 800, 1200, FALSE, ShortText),
      Image(TRUE, 800, 1200, FALSE, <<>>),
      Image(TRUE, 800, 1200, TRUE, <<>>),
      Image(TRUE, 29, 25, FALSE, ShortText),
      Image(TRUE, 28, 1200, FALSE, ReferenceText),
      Image(TRUE, 5, 1200, FALSE, ReferenceText),
      Image(TRUE, 800, 24, FALSE, ReferenceText) }

\* the most images in the directory
MaxImages == 2

\* the gates whose request fails during the batch: none, or gate 20 of the chart
BatchFailingSets == {{}, {20}}

InitBatch ==
    /\ batch \in ListsUpTo(ImageKinds, MaxImages)
    /\ credentials \in BOOLEAN
    /\ failing_gates \in BatchFailingSets
    /\ position = 0
    /\ results = <<>>
    /\ escaped = FALSE
    /\ instance = "none"
    /\ chatgpt = "None"
    /\ reference_tables = NoTables
    /\ web_call = <<>>
    /\ text = <<>>
    /\ all_numbers = <<>>
    /\ number_pairs = <<>>
    /\ ocr_corrected_pairs = <<>>
    /\ resolver_called = FALSE
    /\ corrected_pairs = <<>>
    /\ planetary_data = <<>>
    /\ red_numbers = <<>>
    /\ black_numbers = <<>>
    /\ center_analysis = NoAnalysis
    /\ module_analysis = NoAnalysis
    /\ gate_summary = NoSummary
    /\ calls = <<>>
    /\ done = {}
    /\ NoHybrid

\* one turn of the loop of main: process_bodygraph on the next image, then
\* save_results; an exception that leaves process_bodygraph ends main
ProcessNextImage ==
    /\ instance = "constructed"
    /\ ~escaped
    /\ position < Len(batch)
    /\ LET r == ProcessBodygraph(batch[position + 1], chatgpt, failing_gates)
       IN  /\ escaped' = r.raised
           /\ results' = IF r.raised THEN results ELSE Append(results, r.result)
    /\ position' = position + 1
    /\ UNCHANGED <<parseVars, channelVars, calls, commentaryVars, batch, hybridVars, done>>

NextBatch ==
    \/ \E CHATGPT_AVAILABLE \in BOOLEAN : Construct(TRUE, CHATGPT_AVAILABLE)
    \/ ProcessNextImage

SpecBatch == InitBatch /\ [][NextBatch]_vars

\* image i of the batch has been taken and process_bodygraph returned on it
Returned(i) == i <= position /\ ~(escaped /\ i = position)

\* the fixed crop box has a pixel: floor(0.65 W) < W - 10 and 10 < floor(0.45 H)
HasRegion(image) ==
    /\ (65 * image.width) \div 100 < image.width - 10
    /\ 10 < (45 * image.height) \div 100

ResultFields ==
    {"planetary_info", "center_analysis", "activated_gates", "channel_descriptions",
     "gate_summary", "gate_descriptions", "summary"}

\* C12: an image that cannot be loaded gives the error result for that image,
\* no exception leaves process_bodygraph on it, and the loop is left able to
\* take the next image of the batch; the images around it get a full result.
C12_UnloadableImageIsSkipped ==
    \A i \in 1..position :
        ~batch[i].loadable =>
            /\ Returned(i)
            /\ results[i] = [error |-> "Could not load image"]
            /\ (i = position /\ i < Len(batch)) => (instance = "constructed" /\ ~escaped)
            /\ \A j \in 1..Len(results) :
                    (j # i /\ batch[j].loadable) => DOMAIN results[j] = ResultFields

\* an unreadable file first, the chart after it: the chart is processed in full
C12_Witness ==
    /\ Len(batch) = 2 /\ position = 2 /\ ~escaped
    /\ ~batch[1].loadable /\ batch[2].loadable
    /\ results[1] = [error |-> "Could not load image"]
    /\ results[2].summary.total_planets = 15
    /\ results[2].summary.defined_channels > 0

\* C13: when the OCR call on the planetary region raises or returns an empty
\* text, process_bodygraph returns a complete result record with no planet
\* populated, no defined channel and no defined center, and does not raise.
C13_OcrFailureGivesEmptyResult ==
    \A i \in 1..position :
        (/\ batch[i].loadable /\ HasRegion(batch[i])
         /\ (batch[i].ocr_raises \/ batch[i].ocr_text = <<>>)) =>
            /\ Returned(i)
            /\ DOMAIN results[i] = ResultFields
            /\ DOMAIN results[i].planetary_info.planets = {}
            /\ results[i].planetary_info.red_numbers_clean = <<>>
            /\ results[i].planetary_info.black_numbers_clean = <<>>
            /\ results[i].center_analysis.defined_channels = <<>>
            /\ results[i].center_analysis.defined_centers = {}
            /\ results[i].channel_descriptions = <<>>
            /\ DOMAIN results[i].gate_descriptions = {}
            /\ results[i].summary.defined_channels = 0
            /\ results[i].summary.defined_centers_from_channels = 0

\* an image on which the OCR raises, then one on which it reads nothing
C13_Witness ==
    /\ Len(batch) = 2 /\ position = 2 /\ ~escaped
    /\ batch[1].loadable /\ HasRegion(batch[1]) /\ batch[1].ocr_raises
    /\ batch[2].loadable /\ HasRegion(batch[2])
    /\ ~batch[2].ocr_raises /\ batch[2].ocr_text = <<>>
    /\ Len(results) = 2
    /\ results[1].center_analysis.defined_centers = {}
    /\ results[2].center_analysis.defined_centers = {}

\* the gates of the clean lists of a result
C16_Activated(result) ==
    {GateOf(result.planetary_info.red_numbers_clean[k]) :
        k \in 1..Len(result.planetary_info.red_numbers_clean)}
    \cup {GateOf(result.planetary_info.black_numbers_clean[k]) :
            k \in 1..Len(result.planetary_info.black_numbers_clean)}

\* C16: a failing commentary request never leaves process_bodygraph: the
\* gate it failed on has a text as web_info, and every activated gate (of the
\* 64) has its description in the result, as it has with no failure.
C16_CommentaryFailureIsContained ==
    \A i \in 1..position :
        (batch[i].loadable /\ HasRegion(batch[i])) =>
            /\ Returned(i)
            /\ DOMAIN results[i].gate_descriptions = C16_Activated(results[i]) \cap (1..64)
            /\ \A g \in DOMAIN results[i].gate_descriptions :
                    /\ results[i].gate_descriptions[g].gate = g
                    /\ results[i].gate_descriptions[g].web_info.kind
                            \in {"chatgpt", "static", "generation_failed"}

\* the chart with a client configured and the request of gate 20 failing: gate
\* 20 holds the failure text, gate 34 of the same channel the service answer
C16_Witness ==
    /\ chatgpt = "client" /\ failing_gates = {20}
    /\ position >= 1 /\ Len(results) >= 1
    /\ batch[1].loadable /\ HasRegion(batch[1])
    /\ {20, 34} \subseteq DOMAIN results[1].gate_descriptions
    /\ results[1].gate_descriptions[20].web_info.kind = "chatgpt"
    /\ results[1].gate_descriptions[20].web_info.analysis.failed
    /\ ~results[1].gate_descriptions[34].web_info.analysis.failed
    /\ Cardinality(DOMAIN results[1].gate_descriptions) > 20

\* C17: when the fixed crop box has zero area for the size of the image,
\* extract_planetary_info returns an empty result and process_bodygraph
\* completes: no exception, a result with no planet.
C17_EmptyRegionGivesEmptyResult ==
    \A i \in 1..position :
        (batch[i].loadable /\ ~HasRegion(batch[i])) =>
            /\ Returned(i)
            /\ DOMAIN results[i].planetary_info.planets = {}

\* C30: in a result with a summary, total_planets is the number of populated
\* planets, red_numbers_clean and black_numbers_clean have that length, and
\* their entry i is the red and the black value of the i-th populated planet
\* in the planetary order.
C30_TotalPlanetsCountsPlanets ==
    \A r \in 1..Len(results) :
        "summary" \in DOMAIN results[r] =>
            LET info == results[r].planetary_info
                populated == SelectSeq(planetary_order,
                                       LAMBDA planet : planet \in DOMAIN info.planets)
            IN  /\ results[r].summary.total_planets = Len(populated)
                /\ Len(info.red_numbers_clean) = Len(populated)
                /\ Len(info.black_numbers_clean) = Len(populated)
                /\ \A i \in 1..Len(populated) :
                        /\ GateOf(info.red_numbers_clean[i])
                                = info.planets[populated[i]].personality.gate
                        /\ LineOf(info.red_numbers_clean[i])
                                = info.planets[populated[i]].personality.line
                        /\ GateOf(info.black_numbers_clean[i])
                                = info.planets[populated[i]].design.gate
                        /\ LineOf(info.black_numbers_clean[i])
                                = info.planets[populated[i]].design.line

\* image i gets a full result: it loads, its region has a pixel, the OCR
\* returns a text
C25_Read(i) ==
    batch[i].loadable /\ HasRegion(batch[i]) /\ ~batch[i].ocr_raises

----------------------------------------------------------------------------
(* Specification of a series of resolver calls on one instance *)

\* the most resolver calls made on the instance
MaxCalls == 3

\* the raw pair lists of the calls: short lists, lists that go to the matching,
\* clean lists of 13, and a list of 13 with the known-bad pair (27.5, 17.6)
CallInputs ==
    {SubSeq(base, 1, n) : base \in Bases, n \in {4, 8, 13}}
        \cup {[ReferencePairs EXCEPT ![9] = << <<"2", "7", ".", "5">>, <<"1", "7", ".", "6">> >>]}

InitCalls ==
    /\ text = <<>>
    /\ all_numbers = <<>>
    /\ number_pairs = <<>>
    /\ ocr_corrected_pairs = <<>>
    /\ resolver_called = FALSE
    /\ corrected_pairs = <<>>
    /\ planetary_data = <<>>
    /\ red_numbers = <<>>
    /\ black_numbers = <<>>
    /\ center_analysis = NoAnalysis
    /\ module_analysis = NoAnalysis
    /\ gate_summary = NoSummary
    /\ calls = <<>>
    /\ NoCommentary
    /\ NoBatch
    /\ done = {}
    /\ NoHybrid

\* self._apply_shift_correction(pairs)
ResolverCall(pairs) ==
    /\ Len(calls) < MaxCalls
    /\ number_pairs' = pairs
    /\ LET r == ApplyShiftCorrection(pairs)
       IN  /\ resolver_called' = r.called
           /\ ocr_corrected_pairs' = r.ocr_corrected_pairs
           /\ corrected_pairs' = r.corrected_pairs
    /\ calls' = Append(calls, [input |-> pairs, output |-> corrected_pairs'])
    /\ UNCHANGED <<text, all_numbers, planetary_data, channelVars, done,
                   commentaryVars, batchVars, hybridVars>>

NextCalls == \E pairs \in CallInputs : ResolverCall(pairs)

SpecCalls == InitCalls /\ [][NextCalls]_vars

----------------------------------------------------------------------------
(* The per-segment extractor: extract_numbers_hybrid of generate_final_results.py *)

\* text.strip()
Strip(s) ==
    LET inside == {i \in 1..Len(s) : ~IsSpace(s[i])}
    IN  IF inside = {} THEN <<>>
        ELSE SubSeq(s, CHOOSE i \in inside : \A j \in inside : i <= j,
                       CHOOSE i \in inside : \A j \in inside : j <= i)

\* the end of the digit run that starts at i
RunEnd(s, i) ==
    CHOOSE j \in i..Len(s) :
        /\ \A k \in i..j : IsDigit(s[k])
        /\ (j = Len(s) \/ ~IsDigit(s[j + 1]))

\* re.findall(r'\d+', s)
RECURSIVE DigitRunsFrom(_, _, _)
DigitRunsFrom(s, i, acc) ==
    IF i > Len(s) THEN acc
    ELSE IF IsDigit(s[i])
         THEN DigitRunsFrom(s, RunEnd(s, i) + 1, Append(acc, SubSeq(s, i, RunEnd(s, i))))
         ELSE DigitRunsFrom(s, i + 1, acc)

DigitRuns(s) == DigitRunsFrom(s, 1, <<>>)

\* re.findall(r'\d+\.\d+', s): a digit run, a period and a digit run,
\* leftmost first, the next search starting after the match
RECURSIVE DecimalNumbersFrom(_, _, _)
DecimalNumbersFrom(s, i, acc) ==
    IF i > Len(s) THEN acc
    ELSE IF /\ IsDigit(s[i])
            /\ RunEnd(s, i) + 2 <= Len(s)
            /\ s[RunEnd(s, i) + 1] = "."
            /\ IsDigit(s[RunEnd(s, i) + 2])
         THEN LET last == RunEnd(s, RunEnd(s, i) + 2)
              IN  DecimalNumbersFrom(s, last + 1, Append(acc, SubSeq(s, i, last)))
         ELSE DecimalNumbersFrom(s, i + 1, acc)

DecimalNumbers(s) == DecimalNumbersFrom(s, 1, <<>>)

\* score = len(decimal_numbers) * 10 + len(re.findall(r'\d+', text))
HybridScore(text_read) == Len(DecimalNumbers(text_read)) * 10 + Len(DigitRuns(text_read))

\* the texts of one segment in the order they are read: the preprocessing
\* methods in dictionary order, the configurations in list order, a method
\* whose preprocessing raises and a configuration whose OCR call raises left out
SegmentTexts(segment) ==
    LET OfMethod(m) ==
            IF segment[m].raised THEN <<>>
            ELSE LET read == SelectSeq(segment[m].configs, LAMBDA o : ~o.raised)
                 IN  [k \in 1..Len(read) |-> Strip(read[k].text)]
    IN  OfMethod(1) \o OfMethod(2) \o OfMethod(3)

\* BestTextFrom with `score >= best_score`: the last text of the best score
RECURSIVE BestTextLastFrom(_, _, _, _)
BestTextLastFrom(texts, k, best_text, best_score) ==
    IF k > Len(texts) THEN best_text
    ELSE IF HybridScore(texts[k]) >= best_score
         THEN BestTextLastFrom(texts, k + 1, texts[k], HybridScore(texts[k]))
         ELSE BestTextLastFrom(texts, k + 1, best_text, best_score)

BestTextLastWins(texts) == BestTextLastFrom(texts, 1, <<>>, 0)

\* best_text after the two loops: it starts as "" with best_score 0 and is
\* replaced when score > best_score
RECURSIVE BestTextFrom(_, _, _, _)
BestTextFrom(texts, k, best_text, best_score) ==
    IF k > Len(texts) THEN best_text
    ELSE IF HybridScore(texts[k]) > best_score
         THEN BestTextFrom(texts, k + 1, texts[k], HybridScore(texts[k]))
         ELSE BestTextFrom(texts, k + 1, best_text, best_score)

BestText(texts) == BestTextFrom(texts, 1, <<>>, 0)

\* the entry appended for a row: the first decimal number of best_text, else
\* its first digit run with '.0', else '0.0'
HybridEntry(best_text) ==
    IF DecimalNumbers(best_text) # <<>> THEN DecimalNumbers(best_text)[1]
    ELSE IF DigitRuns(best_text) # <<>> THEN DigitRuns(best_text)[1] \o <<".", "0">>
    ELSE <<"0", ".", "0">>

\* extract_numbers_hybrid: ([], []) for an image cv2.imread cannot read, else
\* one entry per row of the red column and of the black column
ExtractNumbersHybrid(image) ==
    IF ~image.loadable
    THEN [red_numbers |-> <<>>, black_numbers |-> <<>>]
    ELSE [red_numbers |->
            [i \in 1..13 |-> HybridEntry(BestText(SegmentTexts(image.red[i])))],
          black_numbers |->
            [i \in 1..13 |-> HybridEntry(BestText(SegmentTexts(image.black[i])))]]

----------------------------------------------------------------------------
(* Specification of the per-segment extraction of one image *)

\* what the three preprocessing methods and the four OCR configurations give
\* on one segment.  The method "original" returns the segment and never
\* raises; "morphology_close" starts with the calls of "grayscale_otsu" and
\* raises where that one does.

\* every combination reads the number
SegmentAllAgree ==
    <<[raised |-> FALSE, configs |->
            <<[raised |-> FALSE, text |-> <<"4", "2", ".", "5">>],
              [raised |-> FALSE, text |-> <<"4", "2", ".", "5">>],
              [raised |-> FALSE, text |-> <<"4", "2", ".", "5">>],
              [raised |-> FALSE, text |-> <<"4", "2", ".", "5">>]>>],
      [raised |-> FALSE, configs |->
            <<[raised |-> FALSE, text |-> <<"4", "2", ".", "5">>],
              [raised |-> FALSE, text |-> <<"4", "2", ".", "5">>],
              [raised |-> FALSE, text |-> <<"4", "2", ".", "5">>],
              [raised |-> FALSE, text |-> <<"4", "2", ".", "5">>]>>],
      [raised |-> FALSE, configs |->
            <<[raised |-> FALSE, text |-> <<"4", "2", ".", "5">>],
              [raised |-> FALSE, text |-> <<"4", "2", ".", "5">>],
              [raised |-> FALSE, text |-> <<"4", "2", ".", "5">>],
              [raised |-> FALSE, text |-> <<"4", "2", ".", "5">>]>>]>>

\* a preprocessing that raises, configurations that raise, and the text with two
\* numbers read last by one method and first by another
SegmentSomeRaise ==
    <<[raised |-> FALSE, configs |->
            <<[raised |-> TRUE],
              [raised |-> FALSE, text |-> <<"4", "2">>],
              [raised |-> FALSE, text |-> <<"4", "2", ".", "5">>],
              [raised |-> FALSE, text |-> <<"4", "2", ".", "5", " ", "1", ".", "3">>]>>],
      [raised |-> TRUE],
      [raised |-> FALSE, configs |->
            <<[raised |-> FALSE, text |-> <<"4", "2", ".", "5", " ", "1", ".", "3">>],
              [raised |-> FALSE, text |-> <<"7", ".", "2">>],
              [raised |-> TRUE],
              [raised |-> FALSE, text |-> <<>>]>>]>>

\* different texts of the same score
SegmentTie ==
    <<[raised |-> FALSE, configs |->
            <<[raised |-> FALSE, text |-> <<"x">>],
              [raised |-> FALSE, text |-> <<"7", ".", "2">>],
              [raised |-> FALSE, text |-> <<"4", "2", ".", "5">>],
              [raised |-> FALSE, text |-> <<"7", ".", "2">>]>>],
      [raised |-> TRUE],
      [raised |-> FALSE, configs |->
            <<[raised |-> FALSE, text |-> <<"1", "7", ".", "6">>],
              [raised |-> TRUE],
              [raised |-> TRUE],
              [raised |-> FALSE, text |-> <<"9">>]>>]>>

\* digits and no decimal number
SegmentDigitsOnly ==
    <<[raised |-> TRUE],
      [raised |-> TRUE],
      [raised |-> FALSE, configs |->
            <<[raised |-> FALSE, text |-> <<>>],
              [raised |-> FALSE, text |-> <<"4", "2">>],
              [raised |-> FALSE, text |-> <<"4", " ", "2">>],
              [raised |-> FALSE, text |-> <<"4", "2">>]>>]>>

\* no digit
SegmentNoDigit ==
    <<[raised |-> FALSE, configs |->
            <<[raised |-> FALSE, text |-> <<"x">>],
              [raised |-> FALSE, text |-> <<".">>],
              [raised |-> FALSE, text |-> <<>>],
              [raised |-> FALSE, text |-> <<" ">>]>>],
      [raised |-> FALSE, configs |->
            <<[raised |-> FALSE, text |-> <<>>],
              [raised |-> FALSE, text |-> <<>>],
              [raised |-> FALSE, text |-> <<>>],
              [raised |-> FALSE, text |-> <<>>]>>],
      [raised |-> FALSE, configs |->
            <<[raised |-> FALSE, text |-> <<"x">>],
              [raised |-> FALSE, text |-> <<"x">>],
              [raised |-> FALSE, text |-> <<"x">>],
              [raised |-> FALSE, text |-> <<"x">>]>>]>>

\* every combination raises
SegmentAllRaise ==
    <<[raised |-> TRUE],
      [raised |-> TRUE],
      [raised |-> FALSE, configs |->
            <<[raised |-> TRUE],
              [raised |-> TRUE],
              [raised |-> TRUE],
              [raised |-> TRUE]>>]>>

\* thirteen digit runs outscore one decimal number
SegmentManyRuns ==
    <<[raised |-> FALSE, configs |->
            <<[raised |-> FALSE, text |-> <<"4", "2", ".", "5">>],
              [raised |-> FALSE, text |-> <<"1", " ", "2", " ", "3", " ", "4", " ", "5", " ", "6", " ", "7", " ", "8", " ", "9", " ", "1", " ", "2", " ", "3", " ", "4">>],
              [raised |-> FALSE, text |-> <<"4", "2", ".", "5">>],
              [raised |-> FALSE, text |-> <<"1", " ", "2", " ", "3", " ", "4", " ", "5", " ", "6", " ", "7", " ", "8", " ", "9", " ", "1", " ", "2", " ", "3", " ", "4">>]>>],
      [raised |-> TRUE],
      [raised |-> FALSE, configs |->
            <<[raised |-> FALSE, text |-> <<"4", "2", ".", "5">>],
              [raised |-> TRUE],
              [raised |-> FALSE, text |-> <<"7", ".", "2">>],
              [raised |-> FALSE, text |-> <<"1", " ", "2", " ", "3", " ", "4", " ", "5", " ", "6", " ", "7", " ", "8", " ", "9", " ", "1", " ", "2", " ", "3", " ", "4">>]>>]>>

\* whitespace around the text, more than two digits, two periods
SegmentLongNumber ==
    <<[raised |-> FALSE, configs |->
            <<[raised |-> FALSE, text |-> <<" ", "1", "2", "3", ".", "4", "5", "\n">>],
              [raised |-> FALSE, text |-> <<"1", "2", "3", ".", "4", "5">>],
              [raised |-> TRUE],
              [raised |-> FALSE, text |-> <<"7">>]>>],
      [raised |-> FALSE, configs |->
            <<[raised |-> TRUE],
              [raised |-> TRUE],
              [raised |-> TRUE],
              [raised |-> FALSE, text |-> <<"1", "2", "3", ".", "4", "5">>]>>],
      [raised |-> FALSE, configs |->
            <<[raised |-> FALSE, text |-> <<"4", ".", "5", ".", "6">>],
              [raised |-> FALSE, text |-> <<"4", ".", "5", ".", "6">>],
              [raised |-> FALSE, text |-> <<"4", ".", "5">>],
              [raised |-> FALSE, text |-> <<"1", "2", "3", ".", "4", "5">>]>>]>>

SegmentKinds ==
    <<SegmentAllAgree, SegmentSomeRaise, SegmentTie, SegmentDigitsOnly,
      SegmentNoDigit, SegmentAllRaise, SegmentManyRuns, SegmentLongNumber>>

\* the largest step between the kinds of two rows that follow each other
MaxStep == 2

\* a loadable image: the segment of row i of the red column is of kind
\* first + i * step, the one of the black column offset further kinds on
HybridImage(first, step, offset) ==
    [loadable |-> TRUE,
     red |-> [i \in 1..13 |-> SegmentKinds[((first + i * step) % Len(SegmentKinds)) + 1]],
     black |-> [i \in 1..13 |->
                    SegmentKinds[((first + offset + i * step) % Len(SegmentKinds)) + 1]]]

HybridImages ==
    {[loadable |-> FALSE]}
        \cup {HybridImage(first, step, offset) :
                    first \in 0..(Len(SegmentKinds) - 1), step \in 1..MaxStep,
                    offset \in 0..(Len(SegmentKinds) - 1)}

InitHybrid ==
    /\ hybrid_image \in HybridImages
    /\ hybrid_numbers = <<>>
    /\ text = <<>>
    /\ all_numbers = <<>>
    /\ number_pairs = <<>>
    /\ ocr_corrected_pairs = <<>>
    /\ resolver_called = FALSE
    /\ corrected_pairs = <<>>
    /\ planetary_data = <<>>
    /\ red_numbers = <<>>
    /\ black_numbers = <<>>
    /\ center_analysis = NoAnalysis
    /\ module_analysis = NoAnalysis
    /\ gate_summary = NoSummary
    /\ calls = <<>>
    /\ NoCommentary
    /\ NoBatch
    /\ done = {}

\* extract_numbers_hybrid(image_path, red_bbox, black_bbox)
HybridExtraction ==
    /\ "hybrid" \notin done
    /\ hybrid_numbers' = ExtractNumbersHybrid(hybrid_image)
    /\ done' = done \cup {"hybrid"}
    /\ UNCHANGED <<parseVars, channelVars, calls, commentaryVars, batchVars, hybrid_image>>

NextHybrid == HybridExtraction

SpecHybrid == InitHybrid /\ [][NextHybrid]_vars

\* the image was loadable and extract_numbers_hybrid has returned
C26_Extracted == "hybrid" \in done /\ hybrid_image.loadable

\* the segments in row order and the entries returned for them, the red
\* column first
C26_Segments == hybrid_image.red \o hybrid_image.black

C26_Entries == hybrid_numbers.red_numbers \o hybrid_numbers.black_numbers

\* 10 per decimal number found plus 1 per digit run
C26_Score(text_read) == 10 * Len(DecimalNumbers(text_read)) + Len(DigitRuns(text_read))

\* the positions, among the texts read for a segment, of the highest score
C26_Highest(texts) ==
    {k \in 1..Len(texts) : \A j \in 1..Len(texts) : C26_Score(texts[j]) <= C26_Score(texts[k])}

\* the first text of the highest score
C26_First(texts) == texts[CHOOSE k \in C26_Highest(texts) : \A j \in C26_Highest(texts) : k <= j]

C26_Kept(texts) ==
    IF \E k \in 1..Len(texts) : C26_Score(texts[k]) > 0 THEN C26_First(texts) ELSE <<>>

====
